---- MODULE Spec2Model ----
(***************************************************************************)
(* Model of the sendpigeon Python SDK's retrying HTTP transport            *)
(* (sendpigeon/_http.py) and of the client constructors that configure it  *)
(* (sendpigeon/client.py, sendpigeon/async_client.py).                     *)
(*                                                                         *)
(* Conventions                                                             *)
(*   - an optional Python value is a sequence: <<>> is None, <<v>> is v;   *)
(*   - durations are integers in milliseconds (0.5 s = 500);               *)
(*   - a header value is a tuple of one-character strings, a response body *)
(*     is a tuple of JSON tokens, so that float() and response.json() are  *)
(*     parsers that can fail.                                              *)
(***************************************************************************)
EXTENDS Integers, Sequences, FiniteSets, TLC

(***************************************************************************)
(* Bounds of the model.                                                    *)
(***************************************************************************)
\* the constructor is given max_retries in -MaxNegArg .. MaxPosArg, or nothing
MaxNegArg == 2
MaxPosArg == 6

(***************************************************************************)
(* Program constants.                                                      *)
(***************************************************************************)
DEFAULT_MAX_RETRIES == 2
MAX_RETRIES_CAP == 5
BACKOFF_BASE_MS == 500
BACKOFF_CAP_MS == 8000

None == <<>>
Some(v) == <<v>>

Min(a, b) == IF a <= b THEN a ELSE b

RECURSIVE Pow2(_)
Pow2(n) == IF n <= 0 THEN 1 ELSE 2 * Pow2(n - 1)

(***************************************************************************)
(* float(str): optional sign, digits, optional '.' and digits; at least    *)
(* one digit.  The value is returned in milliseconds, truncated to three   *)
(* decimals.  Anything else raises ValueError (ok = FALSE).                *)
(***************************************************************************)
DigitChars == <<"0", "1", "2", "3", "4", "5", "6", "7", "8", "9">>
IsDigit(c) == \E i \in 1..10 : DigitChars[i] = c
DigitVal(c) == (CHOOSE i \in 1..10 : DigitChars[i] = c) - 1

RECURSIVE DigitsVal(_)
DigitsVal(ds) ==
    IF ds = <<>> THEN 0
    ELSE 10 * DigitsVal(SubSeq(ds, 1, Len(ds) - 1)) + DigitVal(ds[Len(ds)])

float(s) ==
    LET signed == Len(s) > 0 /\ s[1] \in {"+", "-"}
        neg    == Len(s) > 0 /\ s[1] = "-"
        body   == IF signed THEN Tail(s) ELSE s
        dots   == {i \in 1..Len(body) : body[i] = "."}
        d      == IF dots = {} THEN Len(body) + 1 ELSE CHOOSE i \in dots : TRUE
        ip     == SubSeq(body, 1, d - 1)
        fp     == SubSeq(body, d + 1, Len(body))
        fp3    == SubSeq(fp \o <<"0", "0", "0">>, 1, 3)
        ok     == /\ Cardinality(dots) <= 1
                  /\ \A i \in 1..Len(ip) : IsDigit(ip[i])
                  /\ \A i \in 1..Len(fp) : IsDigit(fp[i])
                  /\ Len(ip) + Len(fp) > 0
        mag    == DigitsVal(ip) * 1000 + DigitsVal(fp3)
    IN  IF ok THEN [ok |-> TRUE, ms |-> IF neg THEN 0 - mag ELSE mag]
        ELSE [ok |-> FALSE, ms |-> 0]

(***************************************************************************)
(* response.json(): the body is a tuple of tokens.  Accepted texts are     *)
(* null, the empty array and a flat object of string members; a later      *)
(* duplicate key wins, as in json.loads.  Anything else raises.            *)
(***************************************************************************)
P(c) == [t |-> "punct", v |-> c]
S(s) == [t |-> "str", v |-> s]
W(w) == [t |-> "word", v |-> w]

RECURSIVE ParseMembers(_, _)
\* toks: the tokens after '{' or after a ','; acc: the dict built so far
ParseMembers(toks, acc) ==
    IF /\ Len(toks) >= 4
       /\ toks[1].t = "str" /\ toks[2] = P(":") /\ toks[3].t = "str"
    THEN LET k    == toks[1].v
             acc2 == [x \in (DOMAIN acc) \cup {k} |->
                         IF x = k THEN toks[3].v ELSE acc[x]]
         IN  IF toks[4] = P("}") /\ Len(toks) = 4
             THEN [ok |-> TRUE, value |-> Some([type |-> "dict", fields |-> acc2])]
             ELSE IF toks[4] = P(",")
                  THEN ParseMembers(SubSeq(toks, 5, Len(toks)), acc2)
                  ELSE [ok |-> FALSE, value |-> None]
    ELSE [ok |-> FALSE, value |-> None]

EmptyDict == [x \in {} |-> ""]

json(text) ==
    IF text = <<W("null")>> THEN [ok |-> TRUE, value |-> None]
    ELSE IF text = <<P("["), P("]")>>
         THEN [ok |-> TRUE, value |-> Some([type |-> "list"])]
    ELSE IF text = <<P("{"), P("}")>>
         THEN [ok |-> TRUE, value |-> Some([type |-> "dict", fields |-> EmptyDict])]
    ELSE IF Len(text) > 0 /\ text[1] = P("{")
         THEN ParseMembers(Tail(text), EmptyDict)
    ELSE [ok |-> FALSE, value |-> None]

\* dict.get(key, default); AttributeError (ok = FALSE) when v is not a dict
IsDict(v) == v # None /\ v[1].type = "dict"
HasKey(v, k) == IsDict(v) /\ k \in DOMAIN v[1].fields

(***************************************************************************)
(* _http.py helpers.                                                       *)
(***************************************************************************)
_should_retry(status) == status = 429 \/ status >= 500

\* faulty variant: the exponent counts attempts from 1
_get_retry_delay_OneIndexed(attempt, retry_after) ==
    IF retry_after # None /\ retry_after[1] # <<>> /\ float(retry_after[1]).ok
    THEN float(retry_after[1]).ms
    ELSE Min(BACKOFF_BASE_MS * Pow2(attempt + 1), BACKOFF_CAP_MS)

\* retry_after: None or Some(header value)
_get_retry_delay(attempt, retry_after) ==
    IF retry_after # None /\ retry_after[1] # <<>> /\ float(retry_after[1]).ok
    THEN float(retry_after[1]).ms
    ELSE Min(BACKOFF_BASE_MS * Pow2(attempt), BACKOFF_CAP_MS)

GenericMessage(status) == "Request failed: " \o ToString(status)

\* faulty variant: the body's code is dropped
_parse_error_NoCode(response) ==
    LET parsed == json(response.text)
    IN  IF parsed.ok /\ IsDict(parsed.value) /\ HasKey(parsed.value, "message")
        THEN << parsed.value[1].fields["message"], None >>
        ELSE << GenericMessage(response.status_code), None >>

\* returns <<message, api_code>>
_parse_error(response) ==
    LET parsed == json(response.text)
    IN  IF parsed.ok /\ IsDict(parsed.value)
        THEN << IF HasKey(parsed.value, "message")
                THEN parsed.value[1].fields["message"]
                ELSE GenericMessage(response.status_code),
                IF HasKey(parsed.value, "code")
                THEN Some(parsed.value[1].fields["code"])
                ELSE None >>
        ELSE << GenericMessage(response.status_code), None >>

is_success(status) == 200 <= status /\ status <= 299

(***************************************************************************)
(* Result and SendPigeonError.                                             *)
(***************************************************************************)
SendPigeonError(message, code, api_code, status) ==
    [message |-> message, code |-> code, api_code |-> api_code, status |-> status]

\* Result(data=..., error=...); both fields default to None
Result(data, error) == [data |-> data, error |-> error]

\* faulty variant: the parsed body is returned next to the error
ApiErrorResult_KeepsBody(response) ==
    LET pe == _parse_error(response)
    IN  Result(json(response.text).value,
               Some(SendPigeonError(pe[1], "api_error", pe[2],
                                    Some(response.status_code))))

ApiErrorResult(response) ==
    LET pe == _parse_error(response)
    IN  Result(None, Some(SendPigeonError(pe[1], "api_error", pe[2],
                                          Some(response.status_code))))

\* faulty variant: the timeout is caught by the RequestError handler
TimeoutResult_AsNetwork ==
    Result(None, Some(SendPigeonError("timed out", "network_error", None, None)))

TimeoutResult ==
    Result(None, Some(SendPigeonError("Request timed out", "timeout_error", None, None)))

NetworkResult(msg) ==
    Result(None, Some(SendPigeonError(msg, "network_error", None, None)))

FallbackResult ==
    Result(None, Some(SendPigeonError("Max retries exceeded", "network_error", None, None)))

ok(result) == result.error = None

(***************************************************************************)
(* What one HTTP attempt can come back with.                               *)
(***************************************************************************)
RetryAfterValues ==
    { None,                                   \* header absent
      Some(<<>>),                             \* Retry-After: (empty)
      Some(<<"3">>),
      Some(<<"0">>),
      Some(<<"1", ".", "5">>),
      Some(<<"-", "1">>),
      Some(<<"9">>),                          \* above the backoff cap
      Some(<<"W", "e", "d">>) }               \* an HTTP-date, not a number

Bodies ==
    { <<P("{"), S("message"), P(":"), S("Domain not verified"), P(","),
        S("code"), P(":"), S("DOMAIN_NOT_VERIFIED"), P("}")>>,
      <<P("{"), S("message"), P(":"), S("Rate limited"), P("}")>>,
      <<P("{"), S("code"), P(":"), S("E_UPSTREAM"), P("}")>>,
      <<P("{"), S("id"), P(":"), S("em_1"), P(","),
        S("status"), P(":"), S("sent"), P("}")>>,
      <<P("["), P("]")>>,
      <<W("null")>>,
      <<>>,                                   \* empty body
      <<P("<"), W("html"), P(">")>> }         \* an HTML error page

Statuses == {200, 201, 204, 301, 403, 404, 429, 500, 503}

HttpResponse(status, text, retry_after) ==
    [kind |-> "response", status_code |-> status, text |-> text,
     retry_after |-> retry_after, message |-> ""]

TimeoutException ==
    [kind |-> "timeout", status_code |-> 0, text |-> <<>>,
     retry_after |-> None, message |-> "timed out"]

RequestError(msg) ==
    [kind |-> "request_error", status_code |-> 0, text |-> <<>>,
     retry_after |-> None, message |-> msg]

RequestErrorMessages == {"Connection refused", "Name or service not known"}

Responses ==
    { HttpResponse(st, b, ra) : st \in Statuses, b \in Bodies, ra \in RetryAfterValues }

MaxRetriesArgs == { None } \cup { Some(n) : n \in (0 - MaxNegArg)..MaxPosArg }

(***************************************************************************)
(* State.                                                                  *)
(***************************************************************************)
VARIABLES
    pc,          \* "new", "ready", "loop", "waiting", "sleeping", "returned", "raised"
    variant,     \* "sync" (SendPigeon / SyncHttpClient) or "async"
    arg,         \* the max_retries argument the constructor was given (None: omitted)
    options,     \* ClientOptions, once constructed
    attempt,     \* the loop variable of request()
    attempts,    \* number of HTTP requests issued by the logical call
    last,        \* None, or what the latest attempt came back with
    sleeps,      \* number of sleeps performed by the logical call
    delay,       \* None, or the argument of the latest sleep (ms)
    result,      \* None, or the Result that request() returned
    raised,      \* None, or the exception that left request()
    pair,        \* a SendPigeon and an AsyncSendPigeon given the same inputs
    cl,          \* one client, its scope and the logical calls in flight on it
    wh,          \* one webhook verification: the clock, the input, the outcome
    comparison,  \* one comparison of an expected digest with two given signatures
    api          \* one call of a typed client method, or of Result.unwrap()

\* the variables of the single-call machine
callvars == <<pc, variant, arg, options, attempt, attempts, last, sleeps, delay, result, raised>>
\* the variables of the other machines of this module
others == <<pair, cl, wh, comparison, api>>
vars == <<callvars, others>>

IdlePair == [phase |-> "idle"]
IdleClient == [phase |-> "idle"]
IdleWebhook == [phase |-> "idle"]
IdleCompare == [phase |-> "idle"]
IdleApi == [phase |-> "idle"]

\* the single-call machine before the constructor runs
CallIdle ==
    /\ pc = "new"
    /\ arg = None
    /\ options = [max_retries |-> DEFAULT_MAX_RETRIES]
    /\ attempt = 0
    /\ attempts = 0
    /\ last = None
    /\ sleeps = 0
    /\ delay = None
    /\ result = None
    /\ raised = None

Init ==
    /\ pc = "new"
    /\ variant \in {"sync", "async"}
    /\ arg = None
    /\ options = [max_retries |-> DEFAULT_MAX_RETRIES]
    /\ attempt = 0
    /\ attempts = 0
    /\ last = None
    /\ sleeps = 0
    /\ delay = None
    /\ result = None
    /\ raised = None
    /\ pair = IdlePair /\ cl = IdleClient /\ wh = IdleWebhook
    /\ comparison = IdleCompare /\ api = IdleApi

(***************************************************************************)
(* SendPigeon.__init__ / AsyncSendPigeon.__init__                          *)
(***************************************************************************)
ClampRetries(max_retries) ==
    IF max_retries # None
    THEN Min(max_retries[1], MAX_RETRIES_CAP)
    ELSE DEFAULT_MAX_RETRIES

Construct(max_retries) ==
    /\ pc = "new"
    /\ arg' = max_retries
    /\ options' = [max_retries |-> ClampRetries(max_retries)]
    /\ pc' = "ready"
    /\ UNCHANGED <<others, variant, attempt, attempts, last, sleeps, delay, result, raised>>

(***************************************************************************)
(* SyncHttpClient.request / AsyncHttpClient.request                        *)
(***************************************************************************)
\* entry: max_retries = self.options.max_retries; the for loop starts
Request ==
    /\ pc = "ready"
    /\ pc' = "loop"
    /\ attempt' = 0
    /\ UNCHANGED <<others, variant, arg, options, attempts, last, sleeps, delay, result, raised>>

\* for attempt in range(max_retries + 1): ... self._client.request(...)
Send ==
    /\ pc = "loop"
    /\ attempt < options.max_retries + 1
    /\ attempts' = attempts + 1
    /\ last' = None
    /\ pc' = "waiting"
    /\ UNCHANGED <<others, variant, arg, options, attempt, sleeps, delay, result, raised>>

\* the range is exhausted: the statement after the loop
Fallthrough ==
    /\ pc = "loop"
    /\ ~(attempt < options.max_retries + 1)
    /\ result' = Some(FallbackResult)
    /\ pc' = "returned"
    /\ UNCHANGED <<others, variant, arg, options, attempt, attempts, last, sleeps, delay, raised>>

Return(r) ==
    /\ result' = Some(r)
    /\ pc' = "returned"
    /\ UNCHANGED <<sleeps, delay, raised>>

Raise(e) ==
    /\ raised' = Some(e)
    /\ pc' = "raised"
    /\ UNCHANGED <<sleeps, delay, result>>

\* time.sleep(d) raises ValueError for d < 0; asyncio.sleep(d) returns at once for d <= 0
SleepRaises(v, d) == v = "sync" /\ d < 0

\* time.sleep(d) / await asyncio.sleep(d), then continue
Sleep(d) ==
    IF SleepRaises(variant, d)
    THEN Raise("ValueError")
    ELSE /\ delay' = Some(d)
         /\ sleeps' = sleeps + 1
         /\ pc' = "sleeping"
         /\ UNCHANGED <<result, raised>>

\* the attempt got an HTTP response
Respond(response) ==
    /\ pc = "waiting"
    /\ last' = Some(response)
    /\ IF response.status_code = 204
       THEN Return(Result(None, None))
       ELSE IF is_success(response.status_code)
       THEN IF json(response.text).ok
            THEN Return(Result(json(response.text).value, None))
            ELSE Raise("JSONDecodeError")
       ELSE IF _should_retry(response.status_code) /\ attempt < options.max_retries
       THEN Sleep(_get_retry_delay(attempt, response.retry_after))
       ELSE Return(ApiErrorResult(response))
    /\ UNCHANGED <<others, variant, arg, options, attempt, attempts>>

\* faulty variant: the handler retries without looking at the budget
Timeout_AlwaysRetries ==
    /\ pc = "waiting"
    /\ last' = Some(TimeoutException)
    /\ Sleep(_get_retry_delay(attempt, None))
    /\ UNCHANGED <<others, variant, arg, options, attempt, attempts>>

\* except httpx.TimeoutException
Timeout ==
    /\ pc = "waiting"
    /\ last' = Some(TimeoutException)
    /\ IF attempt < options.max_retries
       THEN Sleep(_get_retry_delay(attempt, None))
       ELSE Return(TimeoutResult)
    /\ UNCHANGED <<others, variant, arg, options, attempt, attempts>>

\* except httpx.RequestError as e
ConnectionFailure(msg) ==
    /\ pc = "waiting"
    /\ last' = Some(RequestError(msg))
    /\ IF attempt < options.max_retries
       THEN Sleep(_get_retry_delay(attempt, None))
       ELSE Return(NetworkResult(msg))
    /\ UNCHANGED <<others, variant, arg, options, attempt, attempts>>

\* the sleep is over: continue with the next value of the range
Wake ==
    /\ pc = "sleeping"
    /\ attempt' = attempt + 1
    /\ pc' = "loop"
    /\ UNCHANGED <<others, variant, arg, options, attempts, last, sleeps, delay, result, raised>>

AttemptEnds ==
    \/ \E response \in Responses : Respond(response)
    \/ Timeout
    \/ \E msg \in RequestErrorMessages : ConnectionFailure(msg)

Next ==
    \/ \E max_retries \in MaxRetriesArgs : Construct(max_retries)
    \/ Request
    \/ Send
    \/ Fallthrough
    \/ \E response \in Responses : Respond(response)
    \/ Timeout
    \/ \E msg \in RequestErrorMessages : ConnectionFailure(msg)
    \/ Wake

Spec == Init /\ [][Next]_vars

\* every HTTP attempt eventually responds or fails; the interpreter keeps running
FairSpec ==
    /\ Spec
    /\ WF_vars(Request)
    /\ WF_vars(Send)
    /\ WF_vars(Fallthrough)
    /\ WF_vars(AttemptEnds)
    /\ WF_vars(Wake)

TypeOK ==
    /\ pc \in {"new", "ready", "loop", "waiting", "sleeping", "returned", "raised"}
    /\ variant \in {"sync", "async"}
    /\ attempt \in 0..(MAX_RETRIES_CAP + 1)
    /\ attempts \in 0..(MAX_RETRIES_CAP + 1)
    /\ sleeps \in 0..MAX_RETRIES_CAP
    /\ Len(result) <= 1 /\ Len(raised) <= 1 /\ Len(last) <= 1 /\ Len(delay) <= 1

(***************************************************************************)
(* Shorthands used by the properties.                                      *)
(***************************************************************************)
InCall == pc \in {"loop", "waiting", "sleeping", "returned", "raised"}
Returned == pc = "returned" /\ result # None
GotResponse == last # None /\ last[1].kind = "response"
GotFailure(kind) == last # None /\ last[1].kind = kind
\* the latest attempt's result has been handled and the loop has not moved on
Handled == pc \in {"sleeping", "returned", "raised"}
ErrorOf(r) == r[1].error[1]

(***************************************************************************)
(* C1: a logical call issues at most max_retries + 1 HTTP attempts, for    *)
(* every configured max_retries.                                           *)
(***************************************************************************)
C1_AtMostMaxRetriesPlusOne ==
    InCall => attempts <= options.max_retries + 1

\* what the loop does guarantee: the range bounds the attempts
AttemptsWithinRange ==
    attempts <= (IF options.max_retries + 1 > 0 THEN options.max_retries + 1 ELSE 0)

(***************************************************************************)
(* C2: whatever the attempts come back with, request() never raises: every *)
(* failure is handed to the caller inside the returned Result.             *)
(***************************************************************************)
C2_NeverRaises ==
    pc # "raised" /\ raised = None

(***************************************************************************)
(* C3: every logical call eventually ends with an Outcome, provided each   *)
(* HTTP attempt eventually responds or fails.                              *)
(***************************************************************************)
C3_EndsWithOutcome ==
    (pc = "loop") ~> Returned

\* the loop itself cannot hang: the call ends, in a Result or in an exception
Terminates ==
    (pc = "loop") ~> (pc \in {"returned", "raised"})

(***************************************************************************)
(* C4: a returned Result never has both data and error populated.          *)
(***************************************************************************)
C4_NeverBoth ==
    Returned => (result[1].data = None \/ result[1].error = None)

C4_Witness ==
    /\ Returned
    /\ result[1].error # None
    /\ ErrorOf(result).code = "api_error"
    /\ json(last[1].text).ok /\ json(last[1].text).value # None
    /\ sleeps > 0

(***************************************************************************)
(* C5: an attempt that receives a success status ends the call there with  *)
(* a success Outcome: no data for 204, the parsed JSON body otherwise.     *)
(***************************************************************************)
C5_SuccessEndsCall ==
    (GotResponse /\ is_success(last[1].status_code)) =>
        /\ Returned
        /\ result[1].error = None
        /\ result[1].data = IF last[1].status_code = 204
                            THEN None
                            ELSE json(last[1].text).value
        /\ (last[1].status_code # 204 => json(last[1].text).ok)

(***************************************************************************)
(* C6: a non-success response is followed by another attempt iff its       *)
(* status is 429 or >= 500 and the attempt index is below max_retries;     *)
(* otherwise the call ends there, without a sleep, in an api_error that    *)
(* carries the response's status.                                          *)
(***************************************************************************)
C6_RetryIff ==
    (GotResponse /\ ~is_success(last[1].status_code) /\ Handled) =>
        IF (last[1].status_code = 429 \/ last[1].status_code >= 500)
           /\ attempt < options.max_retries
        THEN pc = "sleeping" /\ sleeps = attempts
        ELSE /\ Returned
             /\ result[1].error # None
             /\ ErrorOf(result).code = "api_error"
             /\ ErrorOf(result).status = Some(last[1].status_code)
             /\ sleeps = attempts - 1

(***************************************************************************)
(* C7: an api_error carries the status of the terminating response, the    *)
(* body's message and code; a body that is no JSON object gives the        *)
(* generic message "Request failed: <status>" and no api_code.             *)
(***************************************************************************)
DomainNotVerifiedBody ==
    <<P("{"), S("message"), P(":"), S("Domain not verified"), P(","),
      S("code"), P(":"), S("DOMAIN_NOT_VERIFIED"), P("}")>>

C7_ApiErrorFields ==
    (Returned /\ result[1].error # None /\ ErrorOf(result).code = "api_error") =>
        LET err    == ErrorOf(result)
            parsed == json(last[1].text)
            isObj  == parsed.ok /\ parsed.value # None /\ parsed.value[1].type = "dict"
        IN  /\ GotResponse
            /\ result[1].data = None
            /\ err.status = Some(last[1].status_code)
            /\ isObj =>
                  /\ "message" \in DOMAIN parsed.value[1].fields
                        => err.message = parsed.value[1].fields["message"]
                  /\ "code" \in DOMAIN parsed.value[1].fields
                        => err.api_code = Some(parsed.value[1].fields["code"])
                  /\ "code" \notin DOMAIN parsed.value[1].fields
                        => err.api_code = None
            /\ ~isObj =>
                  /\ err.message = "Request failed: " \o ToString(last[1].status_code)
                  /\ err.api_code = None
            /\ (last[1].status_code = 403 /\ last[1].text = DomainNotVerifiedBody) =>
                  err = [message |-> "Domain not verified", code |-> "api_error",
                         api_code |-> <<"DOMAIN_NOT_VERIFIED">>, status |-> <<403>>]
            /\ (last[1].status_code = 404 /\ last[1].text = <<>>) =>
                  err.message = "Request failed: 404"

C7_Witness ==
    /\ Returned
    /\ GotResponse /\ last[1].status_code = 403 /\ last[1].text = DomainNotVerifiedBody
    /\ result[1].error # None
    /\ ErrorOf(result).api_code = <<"DOMAIN_NOT_VERIFIED">>
    /\ ErrorOf(result).message = "Domain not verified"

(***************************************************************************)
(* C8: the sleep before a retry is the Retry-After value when the retried  *)
(* response has one that parses as a number of seconds, and otherwise      *)
(* min(0.5 * 2^attempt, 8.0) s; after a timeout or a connection failure it *)
(* is always the latter.                                                   *)
(***************************************************************************)
BackoffTable == <<500, 1000, 2000, 4000, 8000>>

C8_SleepDelay ==
    (pc = "sleeping") =>
        LET hdr     == last[1].retry_after
            numeric == /\ last[1].kind = "response"
                       /\ hdr # None
                       /\ float(hdr[1]).ok
        IN  /\ last # None
            /\ attempt + 1 <= Len(BackoffTable)
            /\ last[1].kind = "response" =>
                  (last[1].status_code = 429 \/ last[1].status_code >= 500)
            /\ numeric => delay = Some(float(hdr[1]).ms)
            /\ ~numeric => delay = Some(BackoffTable[attempt + 1])
            /\ (last[1].kind = "response" /\ hdr = Some(<<"3">>)) => delay = Some(3000)
            /\ (last[1].kind = "response" /\ hdr = Some(<<"1", ".", "5">>))
                  => delay = Some(1500)

C8_Witness ==
    /\ pc = "sleeping"
    /\ attempt = 2
    /\ GotResponse /\ last[1].status_code = 429
    /\ last[1].retry_after = Some(<<"1", ".", "5">>)
    /\ delay = Some(1500)

C8_WitnessBackoff ==
    /\ pc = "sleeping"
    /\ attempt = 4
    /\ GotFailure("timeout")
    /\ delay = Some(8000)

(***************************************************************************)
(* C9: timeouts and connection failures are retried under the budget of    *)
(* 429/5xx responses; a timeout on the last allowed attempt gives a        *)
(* timeout_error, any other connection failure there a network_error.      *)
(***************************************************************************)
C9_NetworkFailures ==
    ((GotFailure("timeout") \/ GotFailure("request_error")) /\ Handled) =>
        IF attempt < options.max_retries
        THEN pc = "sleeping"
        ELSE /\ Returned
             /\ attempt = options.max_retries
             /\ attempts = options.max_retries + 1
             /\ result[1].data = None
             /\ result[1].error # None
             /\ ErrorOf(result).status = None
             /\ GotFailure("timeout") =>
                   ErrorOf(result).code = "timeout_error"
             /\ GotFailure("request_error") =>
                   /\ ErrorOf(result).code = "network_error"
                   /\ ErrorOf(result).message = last[1].message

C9_Witness ==
    /\ Returned
    /\ GotFailure("timeout")
    /\ result[1].error # None
    /\ ErrorOf(result).code = "timeout_error"
    /\ attempts = 3 /\ sleeps = 2

(***************************************************************************)
(* C10: for every integer max_retries given to the constructor the retry   *)
(* count the transport uses lies in [0, 5]; it is 2 when none is given.    *)
(***************************************************************************)
C10_RetriesClamped ==
    (pc # "new") =>
        /\ options.max_retries \in 0..5
        /\ (arg = None => options.max_retries = 2)

\* what the constructors do guarantee
RetriesAtMostCap ==
    (pc # "new") =>
        /\ options.max_retries <= 5
        /\ (arg = None => options.max_retries = 2)
        /\ (arg # None /\ arg[1] <= 5 => options.max_retries = arg[1])

API_KEYS == {"sk_test_xxx"}

\* httpx.Client(base_url, timeout, headers={...}) as built by the transport
DefaultHeaders(api_key) ==
    ("Authorization" :> ("Bearer " \o api_key)) @@ ("Content-Type" :> "application/json")

Client(v, api_key, max_retries) ==
    [variant |-> v, api_key |-> api_key,
     options |-> [max_retries |-> ClampRetries(max_retries)],
     headers |-> DefaultHeaders(api_key)]

\* the keyword arguments of send() that reach the body; None: left out
Email(to, subject, html, reply_to, template_id, scheduled_at) ==
    [to |-> to, subject |-> subject, html |-> html, reply_to |-> reply_to,
     template_id |-> template_id, scheduled_at |-> scheduled_at]

\* `if subject:` and the like: neither None nor the empty string
Truthy(v) == v # None /\ v[1] # ""

\* body = {"to": to}; if subject: body["subject"] = subject; ...; the same
\* in SendPigeon.send (inline) and in build_send_body
build_send_body(email) ==
    LET keys == {"to"}
                \cup (IF Truthy(email.subject) THEN {"subject"} ELSE {})
                \cup (IF Truthy(email.html) THEN {"html"} ELSE {})
                \cup (IF Truthy(email.reply_to) THEN {"replyTo"} ELSE {})
                \cup (IF Truthy(email.template_id) THEN {"templateId"} ELSE {})
                \cup (IF Truthy(email.scheduled_at) THEN {"scheduled_at"} ELSE {})
    IN  [k \in keys |->
            IF k = "to" THEN email.to
            ELSE IF k = "subject" THEN email.subject[1]
            ELSE IF k = "html" THEN email.html[1]
            ELSE IF k = "replyTo" THEN email.reply_to[1]
            ELSE IF k = "templateId" THEN email.template_id[1]
            ELSE email.scheduled_at[1]]

\* send(): the arguments handed to self._http.request
send(to, subject, html, idempotency_key) ==
    [method  |-> "POST",
     path    |-> "/v1/emails",
     body    |-> Some(build_send_body(Email(to, subject, html, None, None, None))),
     headers |-> IF idempotency_key # None /\ idempotency_key[1] # ""
                 THEN Some("Idempotency-Key" :> idempotency_key[1])
                 ELSE None]

\* the keys of one email that send_batch copies, with the key each gets in
\* the body (api_email["replyTo"] = email["reply_to"], ...)
batch_key(k) ==
    IF k = "reply_to" THEN "replyTo"
    ELSE IF k = "template_id" THEN "templateId"
    ELSE IF k = "scheduled_at" THEN "scheduled_at"
    ELSE IF k = "idempotency_key" THEN "idempotencyKey"
    ELSE k

batch_parameters ==
    {"to", "subject", "html", "reply_to", "template_id", "scheduled_at", "idempotency_key"}

\* build_batch_emails, and the same loop inline in SendPigeon.send_batch
build_batch_emails(emails) ==
    [i \in 1..Len(emails) |->
        LET given == DOMAIN emails[i] \cap batch_parameters
        IN  [w \in {batch_key(k) : k \in given} |->
                emails[i][CHOOSE k \in given : batch_key(k) = w]]]

\* send_batch(): the arguments handed to self._http.request
send_batch(emails) ==
    [method  |-> "POST",
     path    |-> "/v1/emails/batch",
     body    |-> Some([emails |-> build_batch_emails(emails)]),
     headers |-> None]

\* one email of a batch: a dict with "to" and the optional keys ks
BatchEmail(ks) == [k \in {"to"} \cup ks |-> IF k = "to" THEN "a@x.com" ELSE "v-" \o k]

\* self._client.request(method=, url=, json=, headers=): the request on the wire;
\* httpx merges the per-request headers over the client's
WireRequest(client, req) ==
    [method  |-> req.method,
     url     |-> req.path,
     json    |-> req.body,
     headers |-> IF req.headers = None THEN client.headers
                 ELSE req.headers[1] @@ client.headers]

NewCall(req) ==
    [pc |-> "loop", attempt |-> 0, attempts |-> 0, last |-> None, slept |-> <<>>,
     result |-> None, raised |-> None, req |-> req, wire |-> <<>>]

CanSend(client, c) == c.pc = "loop" /\ c.attempt < client.options.max_retries + 1
CanFallthrough(client, c) == c.pc = "loop" /\ ~(c.attempt < client.options.max_retries + 1)

\* faulty variant: a retry is sent without the caller's extra headers
CallSend_RetryDropsHeaders(client, c) ==
    [c EXCEPT !.attempts = @ + 1, !.last = None, !.pc = "waiting",
              !.wire = Append(@, WireRequest(client,
                           IF c.attempt = 0 THEN c.req
                           ELSE [c.req EXCEPT !.headers = None]))]

CallSend(client, c) ==
    [c EXCEPT !.attempts = @ + 1, !.last = None, !.pc = "waiting",
              !.wire = Append(@, WireRequest(client, c.req))]

CallFallthrough(c) ==
    [c EXCEPT !.result = Some(FallbackResult), !.pc = "returned"]

CallReturn(c, r) == [c EXCEPT !.result = Some(r), !.pc = "returned"]

CallRaise(c, e) == [c EXCEPT !.raised = Some(e), !.pc = "raised"]

CallSleep(client, c, d) ==
    IF SleepRaises(client.variant, d)
    THEN CallRaise(c, "ValueError")
    ELSE [c EXCEPT !.slept = Append(@, d), !.pc = "sleeping"]

\* the body of the loop after self._client.request came back with o
CallOutcome(client, c, o) ==
    LET c1 == [c EXCEPT !.last = Some(o)]
        mr == client.options.max_retries
    IN  IF o.kind = "response"
        THEN IF o.status_code = 204
             THEN CallReturn(c1, Result(None, None))
             ELSE IF is_success(o.status_code)
             THEN IF json(o.text).ok
                  THEN CallReturn(c1, Result(json(o.text).value, None))
                  ELSE CallRaise(c1, "JSONDecodeError")
             ELSE IF _should_retry(o.status_code) /\ c.attempt < mr
             THEN CallSleep(client, c1, _get_retry_delay(c.attempt, o.retry_after))
             ELSE CallReturn(c1, ApiErrorResult(o))
        ELSE IF o.kind = "timeout"
        THEN IF c.attempt < mr
             THEN CallSleep(client, c1, _get_retry_delay(c.attempt, None))
             ELSE CallReturn(c1, TimeoutResult)
        ELSE IF c.attempt < mr
             THEN CallSleep(client, c1, _get_retry_delay(c.attempt, None))
             ELSE CallReturn(c1, NetworkResult(o.message))

CallWake(c) == [c EXCEPT !.attempt = @ + 1, !.pc = "loop"]

Outcomes ==
    Responses \cup {TimeoutException} \cup {RequestError(m) : m \in RequestErrorMessages}

(***************************************************************************)
(* The functions above are the single-call machine: each of its steps      *)
(* changes pc, attempt, attempts, last, result and raised as the function  *)
(* does, and sleeps exactly when the function appends a delay.             *)
(***************************************************************************)
ThisClient == [variant |-> variant, api_key |-> "sk_test_xxx", options |-> options,
               headers |-> DefaultHeaders("sk_test_xxx")]

ThisCall ==
    [pc |-> pc, attempt |-> attempt, attempts |-> attempts, last |-> last,
     slept |-> <<>>, result |-> result, raised |-> raised,
     req |-> send("a@x.com", None, None, None), wire |-> <<>>]

StepIs(c) ==
    /\ pc' = c.pc /\ attempt' = c.attempt /\ attempts' = c.attempts
    /\ last' = c.last /\ result' = c.result /\ raised' = c.raised
    /\ IF c.slept = <<>>
       THEN sleeps' = sleeps /\ delay' = delay
       ELSE sleeps' = sleeps + 1 /\ delay' = Some(c.slept[1])

TransportAgrees ==
    [][ /\ (pc = "loop" /\ pc' = "waiting") => StepIs(CallSend(ThisClient, ThisCall))
        /\ (pc = "loop" /\ pc' = "returned") => StepIs(CallFallthrough(ThisCall))
        /\ (pc = "loop") => (CanSend(ThisClient, ThisCall) <=> pc' = "waiting")
        /\ (pc = "waiting") => StepIs(CallOutcome(ThisClient, ThisCall, last'[1]))
        /\ (pc = "sleeping") => StepIs(CallWake(ThisCall)) ]_vars

(***************************************************************************)
(* A SendPigeon and an AsyncSendPigeon built with the same arguments, each *)
(* making the same send() call and given the same result for its k-th      *)
(* attempt.                                                                *)
(***************************************************************************)
Variants == {"sync", "async"}
IdempotencyKeys == {None, Some(""), Some("idem-1")}

\* what the k-th attempt of both clients can come back with
PairOutcomes ==
    { HttpResponse(st, b, ra) :
        st \in {200, 204, 403, 503},
        b  \in { <<P("{"), S("id"), P(":"), S("em_1"), P(","),
                   S("status"), P(":"), S("sent"), P("}")>>,
                 <<P("{"), S("message"), P(":"), S("Domain not verified"), P(","),
                   S("code"), P(":"), S("DOMAIN_NOT_VERIFIED"), P("}")>>,
                 <<P("<"), W("html"), P(">")>> },
        ra \in { None, Some(<<"3">>), Some(<<"-", "1">>), Some(<<"W", "e", "d">>) } }
    \cup {TimeoutException, RequestError("Connection refused")}

PairInit ==
    /\ CallIdle
    /\ variant = "sync"
    /\ pair = [phase |-> "new"]
    /\ cl = IdleClient
    /\ wh = IdleWebhook
    /\ comparison = IdleCompare
    /\ api = IdleApi

PairConstruct(api_key, max_retries) ==
    /\ pair.phase = "new"
    /\ pair' = [phase |-> "ready",
                clients |-> [v \in Variants |-> Client(v, api_key, max_retries)]]
    /\ UNCHANGED <<callvars, cl, wh, comparison, api>>

\* request(method, path, body, headers) of both transports, handed the
\* arguments that SendPigeon.send computes for its request
PairRequest(idempotency_key) ==
    /\ pair.phase = "ready"
    /\ pair' = [phase |-> "calling", clients |-> pair.clients,
                key |-> idempotency_key,
                calls |-> [v \in Variants |->
                    NewCall(send("a@x.com", Some("Hi"), Some("<p>Hi</p>"),
                                 idempotency_key))]]
    /\ UNCHANGED <<callvars, cl, wh, comparison, api>>

\* each client whose call is at the step takes it
PairSend ==
    /\ pair.phase = "calling"
    /\ \E v \in Variants : CanSend(pair.clients[v], pair.calls[v])
    /\ pair' = [pair EXCEPT !.calls = [v \in Variants |->
                    IF CanSend(pair.clients[v], pair.calls[v])
                    THEN CallSend(pair.clients[v], pair.calls[v])
                    ELSE pair.calls[v]]]
    /\ UNCHANGED <<callvars, cl, wh, comparison, api>>

PairFallthrough ==
    /\ pair.phase = "calling"
    /\ \E v \in Variants : CanFallthrough(pair.clients[v], pair.calls[v])
    /\ pair' = [pair EXCEPT !.calls = [v \in Variants |->
                    IF CanFallthrough(pair.clients[v], pair.calls[v])
                    THEN CallFallthrough(pair.calls[v])
                    ELSE pair.calls[v]]]
    /\ UNCHANGED <<callvars, cl, wh, comparison, api>>

PairOutcome(o) ==
    /\ pair.phase = "calling"
    /\ \E v \in Variants : pair.calls[v].pc = "waiting"
    /\ pair' = [pair EXCEPT !.calls = [v \in Variants |->
                    IF pair.calls[v].pc = "waiting"
                    THEN CallOutcome(pair.clients[v], pair.calls[v], o)
                    ELSE pair.calls[v]]]
    /\ UNCHANGED <<callvars, cl, wh, comparison, api>>

PairWake ==
    /\ pair.phase = "calling"
    /\ \E v \in Variants : pair.calls[v].pc = "sleeping"
    /\ pair' = [pair EXCEPT !.calls = [v \in Variants |->
                    IF pair.calls[v].pc = "sleeping"
                    THEN CallWake(pair.calls[v])
                    ELSE pair.calls[v]]]
    /\ UNCHANGED <<callvars, cl, wh, comparison, api>>

PairNext ==
    \/ \E k \in API_KEYS, max_retries \in MaxRetriesArgs : PairConstruct(k, max_retries)
    \/ \E key \in IdempotencyKeys : PairRequest(key)
    \/ PairSend
    \/ PairFallthrough
    \/ \E o \in PairOutcomes : PairOutcome(o)
    \/ PairWake

PairSpec == PairInit /\ [][PairNext]_vars

(***************************************************************************)
(* C12: all attempts of one logical call send the method, path, JSON body  *)
(* and extra headers of the first, each with Authorization: Bearer         *)
(* <api_key> and Content-Type: application/json; a send() given an         *)
(* idempotency key carries it as Idempotency-Key on every attempt, a       *)
(* send() given none carries no such header.                               *)
(***************************************************************************)
PairCalling == pair.phase = "calling"

WireIsTheCall(client, c, w) ==
    /\ w.method = "POST"
    /\ w.url = "/v1/emails"
    /\ w.json = c.req.body
    /\ w.json = Some([to |-> "a@x.com", subject |-> "Hi", html |-> "<p>Hi</p>"])
    /\ "Authorization" \in DOMAIN w.headers
    /\ w.headers["Authorization"] = "Bearer " \o client.api_key
    /\ "Content-Type" \in DOMAIN w.headers
    /\ w.headers["Content-Type"] = "application/json"

\* the claim as written: any key that is given is sent
C12_SameRequestEveryAttempt ==
    PairCalling =>
        \A v \in Variants :
            LET c == pair.calls[v]
            IN  /\ Len(c.wire) = c.attempts
                /\ \A k \in 1..Len(c.wire) :
                      /\ c.wire[k] = c.wire[1]
                      /\ WireIsTheCall(pair.clients[v], c, c.wire[k])
                      /\ pair.key # None =>
                            /\ "Idempotency-Key" \in DOMAIN c.wire[k].headers
                            /\ c.wire[k].headers["Idempotency-Key"] = pair.key[1]
                      /\ pair.key = None =>
                            "Idempotency-Key" \notin DOMAIN c.wire[k].headers

\* amended: a key that is the empty string is treated as no key
C12_SameRequestEveryAttemptNonEmptyKey ==
    PairCalling =>
        \A v \in Variants :
            LET c == pair.calls[v]
            IN  /\ Len(c.wire) = c.attempts
                /\ \A k \in 1..Len(c.wire) :
                      /\ c.wire[k] = c.wire[1]
                      /\ WireIsTheCall(pair.clients[v], c, c.wire[k])
                      /\ (pair.key # None /\ pair.key # Some("")) =>
                            /\ "Idempotency-Key" \in DOMAIN c.wire[k].headers
                            /\ c.wire[k].headers["Idempotency-Key"] = pair.key[1]
                      /\ (pair.key = None \/ pair.key = Some("")) =>
                            "Idempotency-Key" \notin DOMAIN c.wire[k].headers

C12_Witness ==
    /\ PairCalling
    /\ pair.key = Some("idem-1")
    /\ \A v \in Variants :
          /\ Len(pair.calls[v].wire) = 3
          /\ pair.calls[v].wire[3].headers["Idempotency-Key"] = "idem-1"
          /\ pair.calls[v].pc = "returned"

(***************************************************************************)
(* C13: the blocking and the non-blocking transport are equivalent: with   *)
(* the same configuration and the same sequence of per-attempt results     *)
(* they make the same number of attempts, sleep the same delays in the     *)
(* same order and return the same Outcome.                                 *)
(***************************************************************************)
C13_SyncAsyncEquivalent ==
    PairCalling =>
        /\ pair.calls["sync"].attempts = pair.calls["async"].attempts
        /\ pair.calls["sync"].slept = pair.calls["async"].slept
        /\ pair.calls["sync"].result = pair.calls["async"].result

\* the two agree in everything but the sleep's own treatment of a negative delay
SyncAsyncAgreeUntilSleepRaises ==
    (PairCalling /\ pair.calls["sync"].raised # Some("ValueError")) =>
        pair.calls["sync"] = pair.calls["async"]

(***************************************************************************)
(* One client and the logical calls made on it.  A SendPigeon runs its     *)
(* calls on the caller's thread: request() keeps the thread from entry to  *)
(* return, time.sleep included.  An AsyncSendPigeon runs each call as a    *)
(* coroutine of one event loop: a coroutine keeps the loop between two     *)
(* awaits and gives it up at `await self._client.request(...)` and at      *)
(* `await asyncio.sleep(delay)`.  cl.holder is the call that has the       *)
(* thread (0: nobody).  The client is closed once no call is in flight;    *)
(* what httpx does with a closed client is not part of this repository.    *)
(***************************************************************************)
NumCalls == 2
Calls == 1..NumCalls

ClientRetriesArgs == { None, Some(0 - MaxNegArg), Some(0), Some(1) }

ClientOutcomes ==
    { HttpResponse(200, <<P("{"), S("id"), P(":"), S("em_1"), P("}")>>, None),
      HttpResponse(404, <<P("{"), S("message"), P(":"), S("Not found"), P("}")>>, None),
      HttpResponse(503, <<>>, Some(<<"3">>)),
      TimeoutException }

IdleCall == [pc |-> "idle"]

\* time.sleep(delay) keeps the thread, await asyncio.sleep(delay) gives it up
AwaitsSleep_Blocking(v) == FALSE

AwaitsSleep(v) == v = "async"

\* self._client.request(...) blocks, await self._client.request(...) gives up the loop
AwaitsResponse(v) == v = "async"

\* close(): self._http.close() -> self._client.close() / aclose()
close(c) == [c EXCEPT !.closed = TRUE]

__enter__(c) == [c EXCEPT !.scope = "inside"]

\* faulty variant: the resource is released on a normal exit only
__exit___SkipsOnException(c, exc) ==
    IF exc THEN [c EXCEPT !.scope = "left", !.exc = exc]
           ELSE [close(c) EXCEPT !.scope = "left", !.exc = exc]

\* def __exit__(self, *args): self.close()   (returns None: an exception goes on)
__exit__(c, exc) == [close(c) EXCEPT !.scope = "left", !.exc = exc]

\* async def __aexit__(self, *args): await self.close()
__aexit__(c, exc) == [close(c) EXCEPT !.scope = "left", !.exc = exc]

NoneInFlight == \A i \in Calls : cl.calls[i].pc \in {"idle", "returned", "raised"}

Runnable(i) == cl.holder \in {0, i}

ClientInit ==
    /\ CallIdle
    /\ variant = "sync"
    /\ pair = IdlePair
    /\ wh = IdleWebhook
    /\ cl = [phase |-> "new"]
    /\ comparison = IdleCompare
    /\ api = IdleApi

ClientConstruct(v, api_key, max_retries) ==
    /\ cl.phase = "new"
    /\ cl' = [phase |-> "open", client |-> Client(v, api_key, max_retries),
              closed |-> FALSE, closeCalled |-> FALSE, scope |-> "none", exc |-> FALSE,
              holder |-> 0,
              calls |-> [i \in Calls |-> IdleCall],
              scripts |-> [i \in Calls |-> <<>>],
              during |-> [i \in Calls |-> {}]]
    /\ UNCHANGED <<callvars, pair, wh, comparison, api>>

\* with SendPigeon(...) as client: / async with AsyncSendPigeon(...) as client:
Enter ==
    /\ cl.phase = "open" /\ cl.scope = "none" /\ ~cl.closed
    /\ \A i \in Calls : cl.calls[i].pc = "idle"
    /\ cl' = __enter__(cl)
    /\ UNCHANGED <<callvars, pair, wh, comparison, api>>

\* the block is left, at its end (exc = FALSE) or by an exception (exc = TRUE)
Exit(exc) ==
    /\ cl.phase = "open" /\ cl.scope = "inside"
    /\ NoneInFlight
    /\ cl' = IF cl.client.variant = "sync" THEN __exit__(cl, exc) ELSE __aexit__(cl, exc)
    /\ UNCHANGED <<callvars, pair, wh, comparison, api>>

\* client.close() / await client.close() called by the caller
Close ==
    /\ cl.phase = "open" /\ ~cl.closed
    /\ NoneInFlight
    /\ cl' = [close(cl) EXCEPT !.closeCalled = TRUE]
    /\ UNCHANGED <<callvars, pair, wh, comparison, api>>

\* send_batch([...]) on the client: the call enters request()
ClientRequest(i) ==
    /\ cl.phase = "open" /\ ~cl.closed
    /\ cl.calls[i].pc = "idle"
    /\ cl.holder = 0
    /\ cl' = [cl EXCEPT !.calls[i] = NewCall(send_batch(<<BatchEmail({"subject", "html"})>>)),
                        !.holder = IF cl.client.variant = "sync" THEN i ELSE 0]
    /\ UNCHANGED <<callvars, pair, wh, comparison, api>>

ClientSend(i) ==
    /\ cl.phase = "open" /\ ~cl.closed
    /\ CanSend(cl.client, cl.calls[i])
    /\ Runnable(i)
    /\ cl' = [cl EXCEPT !.calls[i] = CallSend(cl.client, cl.calls[i]),
                        !.during[i] = {j \in Calls \ {i} : cl.calls[j].pc = "sleeping"},
                        !.holder = IF AwaitsResponse(cl.client.variant) THEN 0 ELSE i]
    /\ UNCHANGED <<callvars, pair, wh, comparison, api>>

ClientFallthrough(i) ==
    /\ cl.phase = "open"
    /\ CanFallthrough(cl.client, cl.calls[i])
    /\ Runnable(i)
    /\ cl' = [cl EXCEPT !.calls[i] = CallFallthrough(cl.calls[i]), !.holder = 0]
    /\ UNCHANGED <<callvars, pair, wh, comparison, api>>

ClientOutcome(i, o) ==
    /\ cl.phase = "open"
    /\ cl.calls[i].pc = "waiting"
    /\ Runnable(i)
    /\ LET c == CallOutcome(cl.client, cl.calls[i], o)
       IN  cl' = [cl EXCEPT !.calls[i] = c,
                            !.scripts[i] = Append(@, o),
                            !.holder = IF c.pc = "sleeping" /\ ~AwaitsSleep(cl.client.variant)
                                       THEN i ELSE 0]
    /\ UNCHANGED <<callvars, pair, wh, comparison, api>>

ClientWake(i) ==
    /\ cl.phase = "open"
    /\ cl.calls[i].pc = "sleeping"
    /\ Runnable(i)
    /\ cl' = [cl EXCEPT !.calls[i] = CallWake(cl.calls[i]),
                        !.during = [j \in Calls |-> cl.during[j] \ {i}],
                        !.holder = IF cl.client.variant = "sync" THEN i ELSE 0]
    /\ UNCHANGED <<callvars, pair, wh, comparison, api>>

ClientNext ==
    \/ \E v \in Variants, k \in API_KEYS, m \in ClientRetriesArgs : ClientConstruct(v, k, m)
    \/ Enter
    \/ \E exc \in BOOLEAN : Exit(exc)
    \/ Close
    \/ \E i \in Calls : ClientRequest(i)
    \/ \E i \in Calls : ClientSend(i)
    \/ \E i \in Calls : ClientFallthrough(i)
    \/ \E i \in Calls, o \in ClientOutcomes : ClientOutcome(i, o)
    \/ \E i \in Calls : ClientWake(i)

ClientSpec == ClientInit /\ [][ClientNext]_vars

\* the call run alone on the client, fed the results in script one per attempt
RECURSIVE Alone(_, _, _)
Alone(client, c, script) ==
    IF c.pc \in {"returned", "raised"} THEN c
    ELSE IF c.pc = "sleeping" THEN Alone(client, CallWake(c), script)
    ELSE IF c.pc = "loop"
    THEN IF CanSend(client, c) THEN Alone(client, CallSend(client, c), script)
                               ELSE Alone(client, CallFallthrough(c), script)
    ELSE IF script = <<>> THEN c
    ELSE Alone(client, CallOutcome(client, c, Head(script)), Tail(script))

ClientOpen == cl.phase = "open"
AsyncClientOpen == ClientOpen /\ cl.client.variant = "async"
Started(i) == cl.calls[i].pc # "idle"
Ended(i) == cl.calls[i].pc \in {"returned", "raised"}
InFlight(i) == Started(i) /\ ~Ended(i)

(***************************************************************************)
(* C14: with several logical calls in flight on one AsyncSendPigeon, in    *)
(* every interleaving each call has its own attempt counter: it makes at   *)
(* most max_retries + 1 attempts, and its Outcome is a function of the     *)
(* results of its own attempts only.                                       *)
(***************************************************************************)
C14_CallsIndependent ==
    AsyncClientOpen =>
        \A i \in Calls : Started(i) =>
            /\ cl.calls[i].attempts <= cl.client.options.max_retries + 1
            /\ cl.calls[i].attempts = Len(cl.calls[i].wire)
            /\ Ended(i) =>
                  cl.calls[i] = Alone(cl.client, NewCall(cl.calls[i].req), cl.scripts[i])

\* what remains true for every retry count the constructor lets through
CallsIndependentOfEachOther ==
    AsyncClientOpen =>
        \A i \in Calls : Started(i) =>
            /\ cl.client.options.max_retries >= 0 =>
                  cl.calls[i].attempts <= cl.client.options.max_retries + 1
            /\ cl.client.options.max_retries < 0 => cl.calls[i].attempts = 0
            /\ Len(cl.scripts[i]) \in {cl.calls[i].attempts, cl.calls[i].attempts - 1}
            /\ Ended(i) =>
                  cl.calls[i] = Alone(cl.client, NewCall(cl.calls[i].req), cl.scripts[i])

CallsInterleaved ==
    /\ AsyncClientOpen
    /\ cl.client.options.max_retries = 1
    /\ Ended(1) /\ Ended(2)
    /\ cl.calls[1].attempts = 2 /\ cl.calls[1].result[1].error # None
    /\ cl.calls[2].attempts = 1 /\ cl.calls[2].result[1].error = None

(***************************************************************************)
(* C15: in the non-blocking transport a call waiting out a backoff delay   *)
(* does not hold the event loop: every other call in flight can take its   *)
(* next step, so another call can issue an attempt and reach its Outcome   *)
(* while the first is still in its delay.                                  *)
(***************************************************************************)
C15_BackoffDoesNotBlock ==
    AsyncClientOpen =>
        \A i \in Calls : cl.calls[i].pc = "sleeping" =>
            /\ cl.holder # i
            /\ \A j \in Calls \ {i} :
                  /\ Runnable(j)
                  /\ cl.calls[j].pc = "idle" => ENABLED ClientRequest(j)
                  /\ CanSend(cl.client, cl.calls[j]) => ENABLED ClientSend(j)
                  /\ cl.calls[j].pc = "waiting" =>
                        \A o \in ClientOutcomes : ENABLED ClientOutcome(j, o)

\* call 2 sent its attempt and returned during the delay call 1 is still in
C15_Witness ==
    /\ AsyncClientOpen
    /\ cl.calls[1].pc = "sleeping"
    /\ cl.calls[1].slept = <<3000>>
    /\ cl.calls[2].pc = "returned"
    /\ cl.calls[2].attempts = 1
    /\ 1 \in cl.during[2]

(***************************************************************************)
(* C16: close() releases the client's HTTP resource; leaving a `with` /    *)
(* `async with` block releases it too, whether the block ends normally or  *)
(* by an exception; it is not released while the block is still running    *)
(* unless the caller closes it.                                            *)
(***************************************************************************)
C16_ScopedRelease ==
    ClientOpen =>
        /\ cl.scope = "left" => cl.closed
        /\ cl.closeCalled => cl.closed
        /\ (cl.scope \in {"none", "inside"} /\ ~cl.closeCalled) => ~cl.closed

\* a block that made a call and ended by an exception; nobody called close()
C16_Witness ==
    /\ ClientOpen
    /\ cl.scope = "left" /\ cl.exc /\ ~cl.closeCalled
    /\ cl.closed
    /\ \E i \in Calls : Ended(i)

C16_WitnessStillOpenInside ==
    /\ ClientOpen
    /\ cl.scope = "inside" /\ ~cl.closed
    /\ \E i \in Calls : cl.calls[i].pc = "returned"

(***************************************************************************)
(* Webhook verification (webhooks.py).  Header values are tuples of        *)
(* characters, payload texts are tuples of JSON tokens, time is in         *)
(* seconds.  HMAC-SHA256 is taken to be collision free: a digest is the    *)
(* pair of the key and the message it was computed from.                   *)
(***************************************************************************)
DEFAULT_MAX_AGE == 300
Now0 == 1000
MaxTicks == 2

Abs(n) == IF n < 0 THEN 0 - n ELSE n

RECURSIVE Strip(_)
\* str.strip() as int() applies it
Strip(s) ==
    IF s # <<>> /\ s[1] = " " THEN Strip(Tail(s))
    ELSE IF s # <<>> /\ s[Len(s)] = " " THEN Strip(SubSeq(s, 1, Len(s) - 1))
    ELSE s

\* int(str): surrounding blanks, optional sign, at least one digit; else ValueError
int(s) ==
    LET t      == Strip(s)
        signed == Len(t) > 0 /\ t[1] \in {"+", "-"}
        neg    == Len(t) > 0 /\ t[1] = "-"
        body   == IF signed THEN Tail(t) ELSE t
        good   == Len(body) > 0 /\ \A i \in 1..Len(body) : IsDigit(body[i])
    IN  IF good THEN [ok |-> TRUE, value |-> IF neg THEN 0 - DigitsVal(body) ELSE DigitsVal(body)]
        ELSE [ok |-> FALSE, value |-> 0]

\* a payload as the caller passes it: str, or bytes that may not be UTF-8
StrPayload(text) == [type |-> "str", utf8 |-> TRUE, text |-> text]
BytesPayload(text) == [type |-> "bytes", utf8 |-> TRUE, text |-> text]
InvalidUtf8Bytes == [type |-> "bytes", utf8 |-> FALSE, text |-> <<>>]

\* payload.decode("utf-8") if isinstance(payload, bytes) else payload
decode(payload) ==
    IF payload.type = "bytes" /\ ~payload.utf8
    THEN [ok |-> FALSE, text |-> <<>>]                \* UnicodeDecodeError
    ELSE [ok |-> TRUE, text |-> payload.text]

\* f"{timestamp}.{payload_str}": the first '.' ends the timestamp whenever
\* the timestamp passed int(), so the pair stands for the concatenation
SignedPayload(timestamp, payload_str) == [timestamp |-> timestamp, text |-> payload_str]

NoMessage == SignedPayload(<<>>, <<>>)

\* hmac.new(secret, message, sha256).hexdigest()
hexdigest(secret, message) ==
    [kind |-> "hex", ascii |-> TRUE, secret |-> secret, message |-> message, v |-> ""]

\* a signature header that is not a digest of anything
TextSignature(v, ascii) ==
    [kind |-> "text", ascii |-> ascii, secret |-> "", message |-> NoMessage, v |-> v]

\* faulty variant: every signature is accepted
compare_digest_AlwaysEqual(a, b) ==
    IF ~b.ascii THEN [raises |-> TRUE, eq |-> FALSE]
    ELSE [raises |-> FALSE, eq |-> TRUE]

\* hmac.compare_digest(a, b): TypeError for a str with non-ASCII characters
compare_digest(a, b) ==
    IF ~b.ascii THEN [raises |-> TRUE, eq |-> FALSE]
    ELSE [raises |-> FALSE, eq |-> a = b]

\* faulty variant: only timestamps in the past are checked
TooOld_PastOnly(t_now, ts, max_age) == t_now - ts > max_age

\* abs(now - ts) > max_age
TooOld(t_now, ts, max_age) == Abs(t_now - ts) > max_age

WebhookVerifySuccess(data) ==
    [kind |-> "returned", type |-> "WebhookVerifySuccess", valid |-> TRUE,
     error |-> "", payload |-> data, exc |-> ""]
WebhookVerifyFailure(error) ==
    [kind |-> "returned", type |-> "WebhookVerifyFailure", valid |-> FALSE,
     error |-> error, payload |-> None, exc |-> ""]
InboundWebhookVerifySuccess(data) ==
    [kind |-> "returned", type |-> "InboundWebhookVerifySuccess", valid |-> TRUE,
     error |-> "", payload |-> data, exc |-> ""]
InboundWebhookVerifyFailure(error) ==
    [kind |-> "returned", type |-> "InboundWebhookVerifyFailure", valid |-> FALSE,
     error |-> error, payload |-> None, exc |-> ""]
\* an exception leaves the function
Raises(exc) ==
    [kind |-> "raised", type |-> "", valid |-> FALSE, error |-> "", payload |-> None,
     exc |-> exc]

\* max_age: None when the caller leaves the default
MaxAgeOf(max_age) == IF max_age = None THEN DEFAULT_MAX_AGE ELSE max_age[1]

verify_webhook(payload, signature, timestamp, secret, max_age, t_now) ==
    LET ts == int(timestamp)
    IN  IF ~ts.ok THEN WebhookVerifyFailure("Invalid timestamp")
        ELSE IF TooOld(t_now, ts.value, MaxAgeOf(max_age))
        THEN WebhookVerifyFailure("Timestamp too old")
        ELSE LET d == decode(payload)
             IN  IF ~d.ok THEN Raises("UnicodeDecodeError")
                 ELSE LET expected == hexdigest(secret, SignedPayload(timestamp, d.text))
                          cmp      == compare_digest(expected, signature)
                      IN  IF cmp.raises THEN Raises("TypeError")
                          ELSE IF ~cmp.eq THEN WebhookVerifyFailure("Invalid signature")
                          ELSE IF ~json(d.text).ok
                          THEN WebhookVerifyFailure("Invalid JSON payload")
                          ELSE WebhookVerifySuccess(json(d.text).value)

\* faulty variant: the caller's max_age is not passed on
verify_inbound_webhook_DefaultMaxAge(payload, signature, timestamp, secret, max_age, t_now) ==
    LET r == verify_webhook(payload, signature, timestamp, secret, None, t_now)
    IN  IF r.kind = "raised" THEN r
        ELSE IF r.type = "WebhookVerifySuccess" THEN InboundWebhookVerifySuccess(r.payload)
        ELSE InboundWebhookVerifyFailure(r.error)

verify_inbound_webhook(payload, signature, timestamp, secret, max_age, t_now) ==
    LET r == verify_webhook(payload, signature, timestamp, secret, max_age, t_now)
    IN  IF r.kind = "raised" THEN r
        ELSE IF r.type = "WebhookVerifySuccess" THEN InboundWebhookVerifySuccess(r.payload)
        ELSE InboundWebhookVerifyFailure(r.error)

(***************************************************************************)
(* The verification machine: a webhook arrives and is verified with one of *)
(* the two functions; the clock advances between two webhooks.             *)
(***************************************************************************)
Timestamps ==
    { <<"6", "9", "9">>, <<"7", "0", "0">>, <<"1", "0", "0", "0">>,
      <<"1", "3", "0", "2">>, <<"+", "1", "0", "0", "0">>, <<" ", "1", "0", "0", "0">>,
      <<"a", "b", "c">>, <<>> }

MaxAges == { None, Some(0), Some(1) }

EventText == <<P("{"), S("event"), P(":"), S("email.delivered"), P("}")>>
HtmlText == <<P("<"), W("html"), P(">")>>
PayloadTexts == { EventText, HtmlText, <<>> }

Payloads ==
    { StrPayload(x) : x \in PayloadTexts }
    \cup { BytesPayload(EventText), BytesPayload(HtmlText), InvalidUtf8Bytes }

Secrets == { "whsec_a", "whsec_b" }

Signatures ==
    { hexdigest(k, SignedPayload(t, x)) : k \in Secrets, t \in Timestamps, x \in PayloadTexts }
    \cup { TextSignature("deadbeef", TRUE), TextSignature("", TRUE),
           TextSignature("sign with a non-ASCII letter", FALSE) }

WebhookInit ==
    /\ CallIdle
    /\ variant = "sync"
    /\ pair = IdlePair
    /\ cl = IdleClient
    /\ wh = [phase |-> "ready", now |-> Now0]
    /\ comparison = IdleCompare
    /\ api = IdleApi

\* time.time() moves on; the caller is done with the previous outcome
Tick ==
    /\ wh.phase \in {"ready", "done"}
    /\ wh.now < Now0 + MaxTicks
    /\ wh' = [phase |-> "ready", now |-> wh.now + 1]
    /\ UNCHANGED <<callvars, pair, cl, comparison, api>>

Verify(payload, signature, timestamp, secret, max_age) ==
    /\ wh.phase = "ready"
    /\ wh' = [phase |-> "done", now |-> wh.now, fn |-> "verify_webhook",
              input |-> [payload |-> payload, signature |-> signature,
                         timestamp |-> timestamp, secret |-> secret, max_age |-> max_age],
              out |-> verify_webhook(payload, signature, timestamp, secret, max_age, wh.now)]
    /\ UNCHANGED <<callvars, pair, cl, comparison, api>>

VerifyInbound(payload, signature, timestamp, secret, max_age) ==
    /\ wh.phase = "ready"
    /\ wh' = [phase |-> "done", now |-> wh.now, fn |-> "verify_inbound_webhook",
              input |-> [payload |-> payload, signature |-> signature,
                         timestamp |-> timestamp, secret |-> secret, max_age |-> max_age],
              out |-> verify_inbound_webhook(payload, signature, timestamp, secret,
                                             max_age, wh.now)]
    /\ UNCHANGED <<callvars, pair, cl, comparison, api>>

WebhookNext ==
    \/ Tick
    \/ /\ wh.phase = "ready"
       /\ \E p \in Payloads, g \in Signatures, t \in Timestamps, k \in Secrets,
             a \in MaxAges : Verify(p, g, t, k, a)
    \/ /\ wh.phase = "ready"
       /\ \E p \in Payloads, g \in Signatures, t \in Timestamps, k \in Secrets,
             a \in MaxAges : VerifyInbound(p, g, t, k, a)

WebhookSpec == WebhookInit /\ [][WebhookNext]_vars

\* the four conditions, stated on the input
Verified == wh.phase = "done"
TimestampParses == int(wh.input.timestamp).ok
Distance == Abs(wh.now - int(wh.input.timestamp).value)
WithinWindow == TimestampParses /\ Distance <= MaxAgeOf(wh.input.max_age)
IsText == wh.input.payload.type = "str" \/ wh.input.payload.utf8
SignatureMatches ==
    /\ IsText
    /\ wh.input.signature =
          hexdigest(wh.input.secret, SignedPayload(wh.input.timestamp, wh.input.payload.text))
ValidJson == IsText /\ json(wh.input.payload.text).ok
ReturnedValid == wh.out.kind = "returned" /\ wh.out.valid
ReturnedFailure(reason) ==
    wh.out.kind = "returned" /\ ~wh.out.valid /\ wh.out.error = reason
FailureReasons ==
    {"Invalid timestamp", "Timestamp too old", "Invalid signature", "Invalid JSON payload"}

(***************************************************************************)
(* C17: verify_webhook returns valid=true exactly when the timestamp       *)
(* parses as an integer, |now - timestamp| <= max_age, the hex HMAC-SHA256 *)
(* of "{timestamp}.{payload}" under the secret equals the signature, and   *)
(* the payload is valid JSON; the payload returned is the parsed JSON,     *)
(* also for a payload given as UTF-8 bytes.                                *)
(***************************************************************************)
C17_ValidIffAllFour ==
    Verified =>
        /\ ReturnedValid <=>
              (TimestampParses /\ WithinWindow /\ SignatureMatches /\ ValidJson)
        /\ ReturnedValid =>
              /\ wh.out.payload = json(wh.input.payload.text).value
              /\ wh.out.payload = Some([type |-> "dict",
                                        fields |-> [event |-> "email.delivered"]])

C17_Witness ==
    /\ Verified /\ wh.fn = "verify_webhook"
    /\ wh.input.payload = BytesPayload(EventText)
    /\ ReturnedValid
    /\ wh.out.payload[1].fields["event"] = "email.delivered"

(***************************************************************************)
(* C18: when several checks fail for one input, the reason reported is     *)
(* that of the first failing check in the order Invalid timestamp,         *)
(* Timestamp too old, Invalid signature, Invalid JSON payload.             *)
(***************************************************************************)
FirstFailingCheck ==
    IF ~TimestampParses THEN "Invalid timestamp"
    ELSE IF ~WithinWindow THEN "Timestamp too old"
    ELSE IF ~SignatureMatches THEN "Invalid signature"
    ELSE IF ~ValidJson THEN "Invalid JSON payload"
    ELSE "none"

C18_FirstFailingCheckReported ==
    (Verified /\ FirstFailingCheck # "none") => ReturnedFailure(FirstFailingCheck)

\* the order is kept by every call that returns
OrderKeptWhenReturned ==
    (Verified /\ wh.out.kind = "returned" /\ FirstFailingCheck # "none") =>
        ReturnedFailure(FirstFailingCheck)

ExpiredWithBadSignature ==
    /\ Verified
    /\ TimestampParses /\ ~WithinWindow /\ ~SignatureMatches /\ ~ValidJson
    /\ ReturnedFailure("Timestamp too old")

(***************************************************************************)
(* C19: the replay window is symmetric and inclusive: a timestamp more     *)
(* than max_age seconds in the past or in the future is rejected with      *)
(* "Timestamp too old"; one exactly max_age seconds away passes the age    *)
(* check.                                                                  *)
(***************************************************************************)
C19_WindowSymmetricInclusive ==
    (Verified /\ TimestampParses) =>
        /\ Distance > MaxAgeOf(wh.input.max_age) => ReturnedFailure("Timestamp too old")
        /\ Distance <= MaxAgeOf(wh.input.max_age) => ~ReturnedFailure("Timestamp too old")
        /\ (Distance <= MaxAgeOf(wh.input.max_age) /\ SignatureMatches /\ ValidJson) =>
              ReturnedValid

\* a timestamp exactly max_age = 300 seconds in the future is accepted
C19_Witness ==
    /\ Verified
    /\ wh.input.max_age = None
    /\ int(wh.input.timestamp).value - wh.now = DEFAULT_MAX_AGE
    /\ ReturnedValid

C19_WitnessPast ==
    /\ Verified
    /\ wh.input.max_age = None
    /\ wh.now - int(wh.input.timestamp).value = DEFAULT_MAX_AGE
    /\ ReturnedValid

C19_WitnessFutureRejected ==
    /\ Verified
    /\ wh.input.max_age = None
    /\ int(wh.input.timestamp).value - wh.now = DEFAULT_MAX_AGE + 1
    /\ SignatureMatches /\ ValidJson
    /\ ReturnedFailure("Timestamp too old")

(***************************************************************************)
(* C20: verify_webhook and verify_inbound_webhook never raise: for every   *)
(* payload (str or bytes, valid UTF-8 or not), signature, timestamp and    *)
(* secret the call returns valid=false with one of the four reasons, or    *)
(* valid=true with the parsed payload.                                     *)
(***************************************************************************)
C20_VerifyNeverRaises ==
    Verified =>
        /\ wh.out.kind = "returned"
        /\ \/ wh.out.valid /\ ValidJson /\ wh.out.payload = json(wh.input.payload.text).value
           \/ ~wh.out.valid /\ wh.out.error \in FailureReasons

\* every call that returns has one of the two shapes
ReturnedOutcomeWellFormed ==
    (Verified /\ wh.out.kind = "returned") =>
        \/ wh.out.valid /\ ValidJson /\ wh.out.payload = json(wh.input.payload.text).value
        \/ ~wh.out.valid /\ wh.out.error \in FailureReasons

\* the only exceptions: undecodable bytes, and a signature str with non-ASCII characters
RaisesOnlyOnUndecodableInput ==
    (Verified /\ wh.out.kind = "raised") =>
        /\ WithinWindow
        /\ \/ wh.out.exc = "UnicodeDecodeError" /\ ~IsText
           \/ wh.out.exc = "TypeError" /\ IsText /\ ~wh.input.signature.ascii

(***************************************************************************)
(* C21: verify_inbound_webhook is a thin alias of verify_webhook: for the  *)
(* same payload, signature, timestamp, secret, max_age and current time    *)
(* both give the same valid flag, the same parsed payload on success and   *)
(* the same reason on failure (and the same exception where one raises).   *)
(***************************************************************************)
AsWebhook ==
    verify_webhook(wh.input.payload, wh.input.signature, wh.input.timestamp,
                   wh.input.secret, wh.input.max_age, wh.now)
AsInbound ==
    verify_inbound_webhook(wh.input.payload, wh.input.signature, wh.input.timestamp,
                           wh.input.secret, wh.input.max_age, wh.now)

C21_InboundIsAlias ==
    Verified =>
        /\ wh.out = IF wh.fn = "verify_webhook" THEN AsWebhook ELSE AsInbound
        /\ AsInbound.kind = AsWebhook.kind
        /\ AsInbound.valid = AsWebhook.valid
        /\ AsInbound.payload = AsWebhook.payload
        /\ AsInbound.error = AsWebhook.error
        /\ AsInbound.exc = AsWebhook.exc
        /\ AsWebhook.kind = "returned" =>
              /\ AsWebhook.type \in {"WebhookVerifySuccess", "WebhookVerifyFailure"}
              /\ AsInbound.type = "Inbound" \o AsWebhook.type

\* an inbound webhook accepted under a max_age the caller chose
C21_Witness ==
    /\ Verified /\ wh.fn = "verify_inbound_webhook"
    /\ wh.input.max_age = Some(1)
    /\ Distance = 1
    /\ wh.out = InboundWebhookVerifySuccess(AsWebhook.payload)
    /\ AsWebhook.valid

C21_WitnessFailure ==
    /\ Verified /\ wh.fn = "verify_inbound_webhook"
    /\ wh.out = InboundWebhookVerifyFailure("Invalid JSON payload")
    /\ AsWebhook = WebhookVerifyFailure("Invalid JSON payload")

(***************************************************************************)
(* The signature comparison at the level of characters.  hexdigest() is a  *)
(* string of hex digits of a fixed length (64 in the code, DigestLen       *)
(* here); hmac.compare_digest(expected, signature) goes through every      *)
(* character of the given signature and accumulates the differences, so    *)
(* the number of characters it looks at does not depend on where the two   *)
(* strings differ.  `steps` counts the characters looked at.               *)
(***************************************************************************)
DigestLen == 3
HexDigits == {"0", "a", "f"}
Digests == [1..DigestLen -> HexDigits]
GivenSignatures == Digests \cup { <<"a">>, <<>> }

RECURSIVE ShortCircuitSteps(_, _, _)
ShortCircuitSteps(a, b, i) ==
    IF i > Len(a) \/ i > Len(b) THEN i - 1
    ELSE IF a[i] # b[i] THEN i
    ELSE ShortCircuitSteps(a, b, i + 1)

\* faulty variant: expected == signature, which stops at the first difference
timing_safe_compare_ShortCircuit(a, b) ==
    [eq |-> a = b, steps |-> ShortCircuitSteps(a, b, 1)]

RECURSIVE AccumulateDiff(_, _, _, _, _)
\* result |= left[i] ^ right[i] for every i below len(right)
AccumulateDiff(left, right, i, diff, steps) ==
    IF i > Len(right) THEN [eq |-> diff = 0, steps |-> steps]
    ELSE AccumulateDiff(left, right, i + 1,
                        IF left[i] # right[i] THEN 1 ELSE diff, steps + 1)

\* hmac.compare_digest(a, b) on two ASCII strings; with unequal lengths b is
\* compared with itself and the answer is False
timing_safe_compare(a, b) ==
    IF Len(a) = Len(b) THEN AccumulateDiff(a, b, 1, 0, 0)
    ELSE AccumulateDiff(b, b, 1, 1, 0)

CompareInit ==
    /\ CallIdle
    /\ variant = "sync"
    /\ pair = IdlePair
    /\ cl = IdleClient
    /\ wh = IdleWebhook
    /\ api = IdleApi
    /\ comparison = [phase |-> "ready"]

\* two webhooks whose expected digest is the same reach the comparison of
\* verify_webhook with the signatures given1 and given2
CompareSignatures(expected, given1, given2) ==
    /\ comparison.phase = "ready"
    /\ comparison' =
          [phase |-> "done", expected |-> expected,
           given |-> <<given1, given2>>,
           res   |-> <<timing_safe_compare(expected, given1),
                       timing_safe_compare(expected, given2)>>,
           error |-> << IF timing_safe_compare(expected, given1).eq
                        THEN "" ELSE "Invalid signature",
                        IF timing_safe_compare(expected, given2).eq
                        THEN "" ELSE "Invalid signature" >>]
    /\ UNCHANGED <<callvars, pair, cl, wh, api>>

\* the caller is done with both outcomes
CompareAgain ==
    /\ comparison.phase = "done"
    /\ comparison' = [phase |-> "ready"]
    /\ UNCHANGED <<callvars, pair, cl, wh, api>>

CompareNext ==
    \/ /\ comparison.phase = "ready"
       /\ \E e \in Digests, g1 \in GivenSignatures, g2 \in GivenSignatures :
             CompareSignatures(e, g1, g2)
    \/ CompareAgain

CompareSpec == CompareInit /\ [][CompareNext]_vars

Compared == comparison.phase = "done"
FirstDifference(k) ==
    CHOOSE i \in 1..(DigestLen + 1) :
        /\ i = DigestLen + 1 \/ comparison.given[k][i] # comparison.expected[i]
        /\ \A j \in 1..(i - 1) : comparison.given[k][j] = comparison.expected[j]
WrongOfEqualLength(k) ==
    /\ Len(comparison.given[k]) = Len(comparison.expected)
    /\ comparison.given[k] # comparison.expected

(***************************************************************************)
(* C22: the comparison of the expected and the given signature is constant *)
(* time: two wrong signatures of the expected length are both rejected     *)
(* after the same amount of work, wherever each first differs from the     *)
(* expected one; the comparison does not stop at the first difference.     *)
(***************************************************************************)
C22_ComparisonConstantTime ==
    Compared =>
        /\ \A k \in 1..2 : comparison.res[k].eq <=> comparison.given[k] = comparison.expected
        /\ (WrongOfEqualLength(1) /\ WrongOfEqualLength(2)) =>
              /\ comparison.res[1].steps = comparison.res[2].steps
              /\ comparison.res[1].steps = Len(comparison.expected)
              /\ comparison.error = <<"Invalid signature", "Invalid signature">>

\* one signature wrong from its first character, one with a correct prefix
C22_Witness ==
    /\ Compared
    /\ WrongOfEqualLength(1) /\ WrongOfEqualLength(2)
    /\ FirstDifference(1) = 1
    /\ FirstDifference(2) = DigestLen
    /\ comparison.res[1].steps = comparison.res[2].steps

(***************************************************************************)
(* The typed layer over the transport: Result.unwrap(), send(),            *)
(* send_batch() and templates.list().  What a call gives back is either a  *)
(* returned value or the exception that left it.                           *)
(***************************************************************************)
\* value: what was returned, or the SendPigeonError that was raised;
\* sent: the requests that went out on the wire
Gives(value, sent) == [kind |-> "returned", value |-> value, exc |-> "", sent |-> sent]
Throws(exc, sent) == [kind |-> "raised", value |-> None, exc |-> exc, sent |-> sent]

\* Result.unwrap(): raise self.error; raise ValueError when data is None; else data
\* (an exception object is always true, so `if self.error:` is `is not None`)
unwrap(r) ==
    IF r.error # None THEN [Throws("SendPigeonError", <<>>) EXCEPT !.value = r.error]
    ELSE IF r.data = None THEN Throws("ValueError", <<>>)
    ELSE Gives(r.data, <<>>)

\* SendEmailResponse(id=data["id"], status=data["status"], ...): TypeError when
\* data is None or a list, KeyError when a key is missing
parse_send_response(data) ==
    IF ~IsDict(data) THEN [exc |-> "TypeError", value |-> None]
    ELSE IF ~HasKey(data, "id") \/ ~HasKey(data, "status")
    THEN [exc |-> "KeyError", value |-> None]
    ELSE [exc |-> "",
          value |-> Some([type |-> "SendEmailResponse",
                          id |-> data[1].fields["id"],
                          status |-> data[1].fields["status"]])]

\* the rest of send() once request() is over: c is the call as it ended
SendResult(c) ==
    IF c.pc = "raised" THEN Throws(c.raised[1], c.wire)
    ELSE IF c.result[1].error # None
    THEN Gives(Result(None, c.result[1].error), c.wire)
    ELSE IF parse_send_response(c.result[1].data).exc # ""
    THEN Throws(parse_send_response(c.result[1].data).exc, c.wire)
    ELSE Gives(Result(parse_send_response(c.result[1].data).value, None), c.wire)

\* SendPigeon.send: body built inline, request(), typed result
SendPigeon_send(client, email, idempotency_key, o) ==
    SendResult(Alone(client,
                     NewCall([send(email.to, email.subject, email.html, idempotency_key)
                                 EXCEPT !.body = Some(build_send_body(email))]),
                     <<o>>))

\* def build_send_body(*, to, subject, ..., scheduled_at): its keyword parameters
build_send_body_parameters ==
    {"to", "subject", "html", "text", "from_", "cc", "bcc", "reply_to", "template_id",
     "variables", "attachments", "tags", "metadata", "headers", "scheduled_at"}

\* the keywords AsyncSendPigeon.send passes to build_send_body
async_send_keywords == build_send_body_parameters \cup {"tracking"}

\* AsyncSendPigeon.send: build_send_body(...), request(), parse_send_response
AsyncSendPigeon_send(client, email, idempotency_key, o) ==
    IF ~(async_send_keywords \subseteq build_send_body_parameters)
    THEN Throws("TypeError", <<>>)           \* unexpected keyword argument
    ELSE SendPigeon_send(client, email, idempotency_key, o)

\* one element of "variables": a JSON string, or a JSON object
StrItem(v) == [t |-> "str", v |-> v, fields |-> EmptyDict]
DictItem(fields) == [t |-> "dict", v |-> "", fields |-> fields]

\* _parse_variable: data["key"], data["type"], data.get("fallbackValue")
_parse_variable(data) ==
    IF data.t # "dict" THEN [exc |-> "TypeError", value |-> None]
    ELSE IF ~({"key", "type"} \subseteq DOMAIN data.fields)
    THEN [exc |-> "KeyError", value |-> None]
    ELSE [exc |-> "", value |-> Some([key |-> data.fields["key"],
                                      type |-> data.fields["type"]])]

TemplateObject(fields, variables) == [fields |-> fields, variables |-> variables]

\* data.get("variables", [])
VariablesOf(data) == IF data.variables = None THEN <<>> ELSE data.variables[1]

\* _parse_template: the keyword arguments are evaluated in the order written
_parse_template(data) ==
    LET has(k)  == k \in DOMAIN data.fields
        vars_   == VariablesOf(data)
        bad     == {i \in 1..Len(vars_) : _parse_variable(vars_[i]).exc # ""}
        firstbad == CHOOSE i \in bad : \A j \in bad : i <= j
    IN  IF ~has("id") \/ ~has("templateId") \/ ~has("subject")
        THEN [exc |-> "KeyError", value |-> None]
        ELSE IF bad # {} THEN [exc |-> _parse_variable(vars_[firstbad]).exc, value |-> None]
        ELSE IF ~has("status") \/ ~has("createdAt") \/ ~has("updatedAt")
        THEN [exc |-> "KeyError", value |-> None]
        ELSE [exc |-> "",
              value |-> Some([type |-> "Template",
                              id |-> data.fields["id"],
                              template_id |-> data.fields["templateId"],
                              name |-> IF has("name") THEN Some(data.fields["name"]) ELSE None,
                              subject |-> data.fields["subject"],
                              variables |-> [i \in 1..Len(vars_) |->
                                                _parse_variable(vars_[i]).value[1]],
                              status |-> data.fields["status"]])]

\* SyncTemplates.list / AsyncTemplates.list once request() gave r
templates_list(r) ==
    IF r.error # None THEN Gives(Result(None, r.error), <<>>)
    ELSE IF r.data = None THEN Throws("TypeError", <<>>)
    ELSE LET data == r.data[1]
             bad  == {i \in 1..Len(data) : _parse_template(data[i]).exc # ""}
             firstbad == CHOOSE i \in bad : \A j \in bad : i <= j
         IN  IF bad # {} THEN Throws(_parse_template(data[firstbad]).exc, <<>>)
             ELSE Gives(Result(Some([i \in 1..Len(data) |->
                                        _parse_template(data[i]).value[1]]), None), <<>>)

(***************************************************************************)
(* The machine of the typed layer: one call at a time, on a client that    *)
(* does not retry, answered by one attempt result.                         *)
(***************************************************************************)
MaxBatch == 2

ApiClient(v) == Client(v, "sk_test_xxx", Some(0))

SentBody == <<P("{"), S("id"), P(":"), S("em_1"), P(","), S("status"), P(":"), S("sent"), P("}")>>

ApiOutcomes ==
    { HttpResponse(st, SentBody, None) : st \in {200, 201} }
    \cup { HttpResponse(200, b, None) :
              b \in { <<P("{"), S("id"), P(":"), S("em_1"), P("}")>>,
                      <<P("["), P("]")>>, <<W("null")>>, <<P("<"), W("html"), P(">")>> } }
    \cup { HttpResponse(204, <<>>, None),
           HttpResponse(403, DomainNotVerifiedBody, None),
           TimeoutException }

ApiEmails ==
    { Email("a@x.com", Some("Hi"), Some("<p>Hi</p>"), r, t, a) :
         r \in {None, Some("r@x.com")},
         t \in {None, Some("tmpl_1")},
         a \in {None, Some(""), Some("2030-01-01T00:00:00Z")} }

ApiResults ==
    { Result(None, None),
      Result(Some([type |-> "dict", fields |-> [id |-> "em_1"]]), None),
      Result(Some([type |-> "list"]), None),
      TimeoutResult, FallbackResult,
      Result(Some([type |-> "list"]), Some(SendPigeonError("Error", "api_error", Some("ERROR"), Some(403)))) }

BatchEmails ==
    { BatchEmail(ks) :
         ks \in SUBSET {"reply_to", "template_id", "scheduled_at", "idempotency_key"} }

RECURSIVE SeqsUpTo(_, _)
SeqsUpTo(S_, n) ==
    IF n = 0 THEN { <<>> }
    ELSE SeqsUpTo(S_, n - 1)
         \cup { Append(q, x) : q \in {r \in SeqsUpTo(S_, n - 1) : Len(r) = n - 1}, x \in S_ }

\* the template object of the test suite, and objects as _parse_template reads them
TestTemplate(name) ==
    TemplateObject([id |-> "tmpl_1", name |-> name, subject |-> "Welcome!",
                    html |-> "<p>Hi</p>", createdAt |-> "2024-01-01T00:00:00Z",
                    updatedAt |-> "2024-01-01T00:00:00Z"],
                   Some(<<StrItem("name")>>))
FullTemplate(name, variables) ==
    TemplateObject([id |-> "tmpl_1", templateId |-> "welcome", name |-> name,
                    subject |-> "Welcome!", html |-> "<p>Hi</p>", status |-> "published",
                    createdAt |-> "2024-01-01T00:00:00Z",
                    updatedAt |-> "2024-01-01T00:00:00Z"],
                   variables)

TemplateObjects ==
    { TestTemplate("Welcome") }
    \cup { FullTemplate(n, v) :
              n \in {"Welcome", "Reset"},
              v \in { None, Some(<<StrItem("name")>>),
                      Some(<<DictItem([key |-> "name", type |-> "string"])>>) } }

TemplateResults ==
    { Result(Some(d), None) : d \in SeqsUpTo(TemplateObjects, MaxBatch) }
    \cup { Result(None, None), TimeoutResult }

ApiInit ==
    /\ CallIdle
    /\ variant = "sync"
    /\ pair = IdlePair
    /\ cl = IdleClient
    /\ wh = IdleWebhook
    /\ comparison = IdleCompare
    /\ api = [phase |-> "ready"]

Done(op, v, input, out) ==
    [phase |-> "done", op |-> op, variant |-> v, input |-> input, out |-> out]

ApiUnwrap(r) ==
    /\ api.phase = "ready"
    /\ api' = Done("unwrap", "sync", r, unwrap(r))
    /\ UNCHANGED <<callvars, pair, cl, wh, comparison>>

ApiSend(v, email, idempotency_key, o) ==
    /\ api.phase = "ready"
    /\ api' = Done("send", v, [email |-> email, key |-> idempotency_key, o |-> o],
                   IF v = "sync"
                   THEN SendPigeon_send(ApiClient(v), email, idempotency_key, o)
                   ELSE AsyncSendPigeon_send(ApiClient(v), email, idempotency_key, o))
    /\ UNCHANGED <<callvars, pair, cl, wh, comparison>>

\* send_batch() up to a request that fails; the parsing of a batch answer is left out
ApiSendBatch(v, emails) ==
    /\ api.phase = "ready"
    /\ api' = Done("send_batch", v, [emails |-> emails],
                   SendResult(Alone(ApiClient(v), NewCall(send_batch(emails)),
                                    <<TimeoutException>>)))
    /\ UNCHANGED <<callvars, pair, cl, wh, comparison>>

ApiTemplatesList(v, r) ==
    /\ api.phase = "ready"
    /\ api' = Done("templates.list", v, r, templates_list(r))
    /\ UNCHANGED <<callvars, pair, cl, wh, comparison>>

ApiAgain ==
    /\ api.phase = "done"
    /\ api' = [phase |-> "ready"]
    /\ UNCHANGED <<callvars, pair, cl, wh, comparison>>

ApiNext ==
    \/ \E r \in ApiResults : ApiUnwrap(r)
    \/ \E v \in Variants, e \in ApiEmails, k \in {None, Some("idem-1")}, o \in ApiOutcomes :
          ApiSend(v, e, k, o)
    \/ \E v \in Variants, es \in SeqsUpTo(BatchEmails, MaxBatch) \ {<<>>} : ApiSendBatch(v, es)
    \/ \E v \in Variants, r \in TemplateResults : ApiTemplatesList(v, r)
    \/ ApiAgain

ApiSpec == ApiInit /\ [][ApiNext]_vars

(***************************************************************************)
(* Properties of the typed layer.                                          *)
(***************************************************************************)
Called(op) == api.phase = "done" /\ api.op = op
HasRaised == api.out.kind = "raised"
HasReturned == api.out.kind = "returned"

\* C23: Result.unwrap() raises exactly when the Result is an error, and then
\* raises that Result's own error; for every Result whose ok is true it
\* returns the data without raising.
C23_UnwrapRaisesIffError ==
    Called("unwrap") =>
        /\ HasRaised <=> api.input.error # None
        /\ HasRaised => api.out.exc = "SendPigeonError" /\ api.out.value = api.input.error
        /\ ok(api.input) => HasReturned /\ api.out.value = api.input.data

\* what does hold: the claim for every Result that carries data or an error
UnwrapOfResultWithData ==
    (Called("unwrap") /\ (api.input.data # None \/ api.input.error # None)) =>
        /\ HasRaised <=> api.input.error # None
        /\ HasRaised => api.out.exc = "SendPigeonError" /\ api.out.value = api.input.error
        /\ ok(api.input) => HasReturned /\ api.out.value = api.input.data

\* a success Result without data (a 204 answer) makes unwrap raise ValueError
UnwrapOfEmptySuccessRaises ==
    /\ Called("unwrap")
    /\ ok(api.input) /\ api.input.data = None
    /\ HasRaised /\ api.out.exc = "ValueError"

AnsweredWithIdAndStatus ==
    /\ Called("send")
    /\ api.input.o.kind = "response"
    /\ is_success(api.input.o.status_code)
    /\ json(api.input.o.text).ok
    /\ HasKey(json(api.input.o.text).value, "id")
    /\ HasKey(json(api.input.o.text).value, "status")

YieldsIdAndStatus ==
    /\ HasReturned
    /\ ok(api.out.value)
    /\ api.out.value.data # None
    /\ api.out.value.data[1].id = json(api.input.o.text).value[1].fields["id"]
    /\ api.out.value.data[1].status = json(api.input.o.text).value[1].fields["status"]

\* C24: send(to, subject, html) answered by a 2xx response whose body has id
\* and status yields a success Outcome whose data carries that id and that
\* status, from SendPigeon.send and from AsyncSendPigeon.send alike.
C24_SendYieldsIdAndStatus == AnsweredWithIdAndStatus => YieldsIdAndStatus

\* what does hold: the claim for the blocking client
SyncSendYieldsIdAndStatus ==
    (AnsweredWithIdAndStatus /\ api.variant = "sync") => YieldsIdAndStatus

\* AsyncSendPigeon.send raises TypeError before any request is made
AsyncSendRaisesUnsent ==
    (Called("send") /\ api.variant = "async") =>
        HasRaised /\ api.out.exc = "TypeError" /\ api.out.sent = <<>>

\* the wire name the specification gives a Python parameter
CamelCase(p) ==
    IF p = "reply_to" THEN "replyTo"
    ELSE IF p = "template_id" THEN "templateId"
    ELSE IF p = "scheduled_at" THEN "scheduledAt"
    ELSE IF p = "idempotency_key" THEN "idempotencyKey"
    ELSE p

GivenParameters(email) ==
    {"to"} \cup {p \in {"subject", "html", "reply_to", "template_id", "scheduled_at"} :
                    Truthy(email[p])}

Sent == api.out.sent # <<>>
BodySent == api.out.sent[1].json[1]

WireNamesAre(name(_)) ==
    /\ (Called("send") /\ Sent) =>
          DOMAIN BodySent = {name(p) : p \in GivenParameters(api.input.email)}
    /\ (Called("send_batch") /\ Sent) =>
          /\ Len(BodySent.emails) = Len(api.input.emails)
          /\ \A i \in 1..Len(api.input.emails) :
                DOMAIN BodySent.emails[i] = {name(p) : p \in DOMAIN api.input.emails[i]}

\* C25: every field name that send() and send_batch() put into the JSON
\* request body is camelCase on the wire whatever the Python parameter is
\* called: reply_to is sent as replyTo, template_id as templateId, and
\* scheduled_at as scheduledAt.
C25_BodyNamesCamelCase == WireNamesAre(CamelCase)

\* what does hold: camelCase for every parameter but scheduled_at
SnakeScheduledAt(p) == IF p = "scheduled_at" THEN "scheduled_at" ELSE CamelCase(p)
BodyNamesCamelCaseButScheduledAt == WireNamesAre(SnakeScheduledAt)

ScheduledAtSentSnakeCase ==
    /\ Called("send") /\ Sent
    /\ "scheduled_at" \in DOMAIN BodySent
    /\ "replyTo" \in DOMAIN BodySent

BatchScheduledAtSentSnakeCase ==
    /\ Called("send_batch") /\ Sent
    /\ "scheduled_at" \in DOMAIN BodySent.emails[1]
    /\ "idempotencyKey" \in DOMAIN BodySent.emails[1]

\* the array of the claim: objects with id, name, subject, html, variables,
\* createdAt and updatedAt
ListedTemplates == api.input.data[1]
AnsweredWithTemplates ==
    /\ Called("templates.list")
    /\ ok(api.input) /\ api.input.data # None
    /\ \A i \in 1..Len(ListedTemplates) :
          /\ {"id", "name", "subject", "html", "createdAt", "updatedAt"}
                \subseteq DOMAIN ListedTemplates[i].fields
          /\ ListedTemplates[i].variables # None

OneTemplatePerElement ==
    /\ HasReturned
    /\ ok(api.out.value)
    /\ api.out.value.data # None
    /\ Len(api.out.value.data[1]) = Len(ListedTemplates)
    /\ \A i \in 1..Len(ListedTemplates) :
          api.out.value.data[1][i].name = Some(ListedTemplates[i].fields["name"])

\* C26: templates.list() answered by a 2xx body that is a JSON array of
\* template objects carrying id, name, subject, html, variables, createdAt
\* and updatedAt returns a success Result with one Template per element, in
\* order, each element's name preserved.
C26_ListReturnsTemplates == AnsweredWithTemplates => OneTemplatePerElement

\* what does hold: the claim for objects that also carry templateId and
\* status and whose variables are objects with key and type
FullTemplateObject(data) ==
    /\ {"templateId", "status"} \subseteq DOMAIN data.fields
    /\ \A i \in 1..Len(VariablesOf(data)) : _parse_variable(VariablesOf(data)[i]).exc = ""
ListReturnsFullTemplates ==
    (AnsweredWithTemplates /\ \A i \in 1..Len(ListedTemplates) :
                                 FullTemplateObject(ListedTemplates[i]))
        => OneTemplatePerElement

\* the array of the test suite makes templates.list() raise KeyError
ListOfTestTemplateRaises ==
    /\ AnsweredWithTemplates
    /\ ListedTemplates = <<TestTemplate("Welcome")>>
    /\ HasRaised /\ api.out.exc = "KeyError"
ListOfTwoReturned ==
    /\ AnsweredWithTemplates /\ OneTemplatePerElement
    /\ Len(ListedTemplates) = 2
    /\ ListedTemplates[1].fields["name"] # ListedTemplates[2].fields["name"]

(***************************************************************************)
(* The replay machine: an endpoint verifies one webhook after another with *)
(* verify_webhook while the clock advances; the log keeps what each call   *)
(* was given and what it returned.                                         *)
(***************************************************************************)
MaxCalls == 2

Message(text, signature, timestamp, max_age) ==
    [payload |-> StrPayload(text), signature |-> signature, timestamp |-> timestamp,
     secret |-> "whsec_a", max_age |-> max_age]

Signed(text, timestamp, max_age) ==
    Message(text, hexdigest("whsec_a", SignedPayload(timestamp, text)), timestamp, max_age)

ReplayMessages ==
    { Signed(EventText, <<"1", "0", "0", "0">>, Some(1)),
      Signed(EventText, <<"1", "0", "0", "0">>, None),
      Signed(EventText, <<"6", "9", "9">>, None),
      Signed(HtmlText, <<"1", "0", "0", "0">>, None),
      Message(EventText, TextSignature("deadbeef", TRUE), <<"1", "0", "0", "0">>, None) }

ReplayInit ==
    /\ CallIdle
    /\ variant = "sync"
    /\ pair = IdlePair
    /\ cl = IdleClient
    /\ wh = [phase |-> "replay", now |-> Now0, log |-> <<>>]
    /\ comparison = IdleCompare
    /\ api = IdleApi

ReplayTick ==
    /\ wh.phase = "replay"
    /\ wh.now < Now0 + MaxTicks
    /\ wh' = [wh EXCEPT !.now = wh.now + 1]
    /\ UNCHANGED <<callvars, pair, cl, comparison, api>>

\* faulty variant: a signature seen by an earlier call is refused
ReplayVerify_RefusesSeen(m) ==
    /\ wh.phase = "replay"
    /\ Len(wh.log) < MaxCalls
    /\ wh' = [wh EXCEPT !.log = Append(wh.log,
                 [input |-> m, now |-> wh.now,
                  out |-> IF \E i \in 1..Len(wh.log) : wh.log[i].input.signature = m.signature
                          THEN WebhookVerifyFailure("Invalid signature")
                          ELSE verify_webhook(m.payload, m.signature, m.timestamp,
                                              m.secret, m.max_age, wh.now)])]
    /\ UNCHANGED <<callvars, pair, cl, comparison, api>>

\* one call of verify_webhook: it reads its arguments and time.time(), nothing else
ReplayVerify(m) ==
    /\ wh.phase = "replay"
    /\ Len(wh.log) < MaxCalls
    /\ wh' = [wh EXCEPT !.log = Append(wh.log,
                 [input |-> m, now |-> wh.now,
                  out |-> verify_webhook(m.payload, m.signature, m.timestamp,
                                         m.secret, m.max_age, wh.now)])]
    /\ UNCHANGED <<callvars, pair, cl, comparison, api>>

\* the endpoint drops its records of the calls made
ReplayForget ==
    /\ wh.phase = "replay"
    /\ wh.log # <<>>
    /\ wh' = [wh EXCEPT !.log = <<>>]
    /\ UNCHANGED <<callvars, pair, cl, comparison, api>>

ReplayNext ==
    \/ ReplayTick
    \/ \E m \in ReplayMessages : ReplayVerify(m)
    \/ ReplayForget

ReplaySpec == ReplayInit /\ [][ReplayNext]_vars

Accepted(e) == e.out.kind = "returned" /\ e.out.valid
InsideWindow(e) ==
    Abs(e.now - int(e.input.timestamp).value) <= MaxAgeOf(e.input.max_age)

\* C27: webhook verification keeps no state between calls: in any sequence
\* of verify_webhook calls each result depends only on that call's arguments
\* and the current time, so the same validly signed message presented again
\* while still inside the replay window is accepted again.
C27_NoStateBetweenCalls ==
    wh.phase = "replay" =>
        /\ \A i, j \in 1..Len(wh.log) :
              (wh.log[i].input = wh.log[j].input /\ wh.log[i].now = wh.log[j].now)
                 => wh.log[i].out = wh.log[j].out
        /\ \A i, j \in 1..Len(wh.log) :
              (i < j /\ wh.log[i].input = wh.log[j].input
                     /\ Accepted(wh.log[i]) /\ InsideWindow(wh.log[j]))
                 => Accepted(wh.log[j])

\* the same message accepted twice, at two readings of the clock
C27_Witness ==
    /\ wh.phase = "replay"
    /\ Len(wh.log) = 2
    /\ wh.log[1].input = wh.log[2].input
    /\ wh.log[1].now < wh.log[2].now
    /\ Accepted(wh.log[1]) /\ Accepted(wh.log[2])

\* presented again outside the window, it is refused as too old
ReplayOutsideWindowRefused ==
    /\ wh.phase = "replay"
    /\ Len(wh.log) = 2
    /\ wh.log[1].input = wh.log[2].input
    /\ Accepted(wh.log[1])
    /\ wh.log[2].out = WebhookVerifyFailure("Timestamp too old")

(***************************************************************************)
(* Attempts and sleeps of one logical call (the single-call machine).      *)
(***************************************************************************)

\* C28: every logical call issues at least one HTTP attempt before it
\* returns an Outcome, for every max_retries value the constructors accept;
\* no Outcome is produced without the server having been contacted.
C28_AtLeastOneAttempt ==
    Returned => attempts >= 1

\* what does hold: a call with a non-negative budget attempts before it returns
AttemptedUnlessNegativeBudget ==
    (Returned /\ options.max_retries >= 0) => attempts >= 1 /\ last # None

\* a negative budget returns the fallback Outcome without an attempt
ReturnedUnattempted ==
    /\ Returned
    /\ options.max_retries < 0
    /\ attempts = 0
    /\ result = Some(FallbackResult)

\* the sleeps so far lie between the attempts so far
SleepsBetweenAttempts ==
    /\ pc = "loop" => sleeps = attempts
    /\ pc = "waiting" => sleeps = attempts - 1
    /\ pc = "sleeping" => sleeps = attempts /\ attempts >= 1

\* C29: in a logical call that makes n attempts, exactly n - 1 backoff
\* sleeps occur and each lies strictly between two consecutive attempts: no
\* sleep precedes the first attempt, and no sleep follows the attempt whose
\* result becomes the Outcome.
C29_SleepsOneLessThanAttempts ==
    /\ SleepsBetweenAttempts
    /\ Returned => sleeps = attempts - 1

\* what does hold: the claim for every call that made an attempt
SleepsOneLessWhenAttempted ==
    /\ SleepsBetweenAttempts
    /\ (Returned /\ attempts >= 1) => sleeps = attempts - 1

ReturnedAfterTwoSleeps ==
    Returned /\ attempts = 3 /\ sleeps = 2

\* C30: every delay the transport sleeps between attempts is a non-negative
\* number of seconds, for every Retry-After value a server can send on a
\* retried 429/5xx response (negative numbers and values above the 8-second
\* backoff cap included).
C30_DelaysNonNegative ==
    delay # None => delay[1] >= 0

\* what does hold: the blocking client never sleeps a negative delay (it
\* raises instead), and a delay is the header's number or the capped backoff
SleptDelayIsHeaderOrBackoff ==
    (pc = "sleeping") =>
        /\ variant = "sync" => delay[1] >= 0
        /\ delay[1] = _get_retry_delay(attempt, IF GotResponse THEN last[1].retry_after
                                                              ELSE None)
        /\ (delay[1] < 0 \/ delay[1] > BACKOFF_CAP_MS) =>
              GotResponse /\ last[1].retry_after # None

NegativeDelaySlept ==
    pc = "sleeping" /\ variant = "async" /\ delay[1] < 0

DelayAboveCapSlept ==
    pc = "sleeping" /\ delay[1] > BACKOFF_CAP_MS

====
